---- MODULE Spec2Model ----
(***************************************************************************)
(* A model of the obsidian-confluence-sync synchronization engine:         *)
(* the hierarchy resolver (src/src/hierarchy.ts), the plan builder         *)
(* (src/src/planBuilder.ts), the review modal (src/src/ExportPlanModal.ts) *)
(* and the two-pass export orchestrator (src/src/exporter.ts).             *)
(*                                                                         *)
(* A document path is the sequence of its "/"-separated segments, the last *)
(* segment being the basename (every document is a ".md" file, so the      *)
(* extension is left out).  The absent path (null / undefined) is <<>>.    *)
(***************************************************************************)
EXTENDS Integers, Sequences, FiniteSets, TLC

\* ------------------------------------------------------------------ bounds
\* Most documents of one export set (the root included).
MaxFiles == 4
\* Most links, in all, in the documents of one export set.
MaxLinks == 3

\* ------------------------------------------------------------------ vault
Null == <<>>

P_home == <<"Home">>
P_index == <<"docs", "index">>
P_guide == <<"docs", "guide", "guide">>
P_install == <<"docs", "guide", "install">>

\* The documents of the vault.
Vault == {P_home, P_index, P_guide, P_install}

\* The vault's paths in String.prototype.localeCompare order of the joined
\* path ("docs/guide/guide.md" < "docs/guide/install.md" < "docs/index.md" <
\* "Home.md").
VaultOrder == <<P_guide, P_install, P_index, P_home>>

\* Two notes of one name in two folders of another vault, and the paths of
\* both vaults in that order ("Home.md" < "team/notes.md" <
\* "work/notes.md").
P_teamNotes == <<"team", "notes">>
P_workNotes == <<"work", "notes">>
Namesakes == {P_teamNotes, P_workNotes}
PathOrder == VaultOrder \o <<P_teamNotes, P_workNotes>>

Rank(p) == CHOOSE i \in 1..Len(PathOrder) : PathOrder[i] = p

\* a.localeCompare(b) < 0
localeCompareLess(a, b) == Rank(a) < Rank(b)

HierarchyModes == {"flat", "links", "folder", "frontmatter", "hybrid"}
ManyToManyPolicies == {"firstSeen", "closestToRoot", "preferFolderIndex"}

Range(s) == {s[i] : i \in 1..Len(s)}

\* ------------------------------------------------------------ hierarchy.ts

\* The first link of `links` whose destination is in the export set.
RECURSIVE firstLinkedFrom(_, _, _)
firstLinkedFrom(links, i, fileSet) ==
  IF i > Len(links) THEN Null
  ELSE IF links[i] \in fileSet THEN links[i]
  ELSE firstLinkedFrom(links, i + 1, fileSet)

\* A resolver for which the first link wins, exported or not.
firstLinkedAnyParent(linksOfFile, fileSet) ==
  IF Len(linksOfFile) > 0 THEN linksOfFile[1] ELSE Null

firstLinkedExportedParent(linksOfFile, fileSet) ==
  firstLinkedFrom(linksOfFile, 1, fileSet)

\* The while loop of folderParentCandidate over the directory parts.
RECURSIVE folderSearchUp(_, _)
folderSearchUp(parts, fileSet) ==
  IF Len(parts) = 0 THEN Null
  ELSE LET idx == Append(parts, "index")
           folderNote == Append(parts, parts[Len(parts)])
       IN IF idx \in fileSet THEN idx
          ELSE IF folderNote \in fileSet THEN folderNote
          ELSE folderSearchUp(SubSeq(parts, 1, Len(parts) - 1), fileSet)

folderParentCandidate(file, fileSet) ==
  folderSearchUp(SubSeq(file, 1, Len(file) - 1), fileSet)

\* The frontmatter parent, already resolved by the metadata cache to a
\* document (or Null), is kept only when it is in the export set.
resolveTitleToPath(dest, fileSet) ==
  IF dest # Null /\ dest \in fileSet THEN dest ELSE Null

OrElse(a, b) == IF a # Null THEN a ELSE b

\* The parent chosen for one non-root file before post-processing.
chosenParent(f, rootPath, fileSet, mode, linksOf, fmParentOf) ==
  CASE mode = "flat" -> rootPath
    [] mode = "folder" -> OrElse(folderParentCandidate(f, fileSet), rootPath)
    [] mode = "frontmatter" ->
         OrElse(resolveTitleToPath(fmParentOf[f], fileSet), rootPath)
    [] mode = "hybrid" ->
         OrElse(folderParentCandidate(f, fileSet),
                OrElse(firstLinkedExportedParent(linksOf[f], fileSet), rootPath))
    [] OTHER -> OrElse(firstLinkedExportedParent(linksOf[f], fileSet), rootPath)

\* parentPathByPath after the per-mode loop of buildHierarchy.
candidateParents(rootPath, files, mode, linksOf, fmParentOf) ==
  LET fileSet == Range(files)
  IN [p \in fileSet \cup {rootPath} |->
        IF p = rootPath THEN Null
        ELSE chosenParent(p, rootPath, fileSet, mode, linksOf, fmParentOf)]

\* A resolver that leaves a detected cycle as it is.
breakCycleNot(st, node, rootPath) == st

\* breakCycle(node): the node found on the visiting stack is sent to root.
breakCycle(st, node, rootPath) ==
  [st EXCEPT !.parent[node] = rootPath]

\* dfs(n) of resolveManyToMany; st = [parent, visiting, visited].
RECURSIVE dfs(_, _, _)
dfs(n, st, rootPath) ==
  IF n \in st.visited THEN st
  ELSE IF n \in st.visiting THEN breakCycle(st, n, rootPath)
  ELSE LET st1 == [st EXCEPT !.visiting = @ \cup {n}]
           p == IF n \in DOMAIN st1.parent THEN st1.parent[n] ELSE Null
           st2 == IF p # Null THEN dfs(p, st1, rootPath) ELSE st1
       IN [st2 EXCEPT !.visiting = @ \ {n}, !.visited = @ \cup {n}]

\* for (const f of files) dfs(f.path)
RECURSIVE dfsAll(_, _, _, _)
dfsAll(files, i, st, rootPath) ==
  IF i > Len(files) THEN st
  ELSE dfsAll(files, i + 1, dfs(files[i], st, rootPath), rootPath)

\* Non-root files without a parent default to root.
defaultToRoot(parent, rootPath) ==
  [p \in DOMAIN parent |->
     IF p # rootPath /\ parent[p] = Null THEN rootPath ELSE parent[p]]

\* Self-parent edges are rewritten to root.
breakSelfParent(parent, rootPath) ==
  [p \in DOMAIN parent |-> IF parent[p] = p THEN rootPath ELSE parent[p]]

resolveManyToMany(rootPath, files, parent, policy) ==
  LET p1 == defaultToRoot(parent, rootPath)
      p2 == breakSelfParent(p1, rootPath)
      st == dfsAll(files, 1, [parent |-> p2, visiting |-> {}, visited |-> {}],
                   rootPath)
  IN st.parent

\* hier.parentPathByPath of buildHierarchy(app, root, files, mode, policy).
buildHierarchy(rootPath, files, mode, policy, linksOf, fmParentOf) ==
  LET cand == candidateParents(rootPath, files, mode, linksOf, fmParentOf)
  IN IF mode = "flat" THEN cand
     ELSE resolveManyToMany(rootPath, files, cand, policy)

\* ------------------------------------------- exporter.ts: orderByParentMap

\* The elements of a set of paths as a sequence in localeCompare order.
RECURSIVE sortPaths(_)
sortPaths(S) ==
  IF S = {} THEN <<>>
  ELSE LET m == CHOOSE x \in S : \A y \in S : ~localeCompareLess(y, x)
       IN <<m>> \o sortPaths(S \ {m})

\* The files whose parent is `path` in the order of the export set, without
\* the sort.
childrenUnsorted(path, files, parentByPath) ==
  LET isChild(f) == /\ f \in DOMAIN parentByPath
                    /\ parentByPath[f] # Null
                    /\ parentByPath[f] = path
  IN SelectSeq(files, isChild)

\* children.get(path), sorted: the files whose parent is `path`.
childrenOf(path, files, parentByPath) ==
  sortPaths({files[i] : i \in {j \in 1..Len(files) :
                                 /\ files[j] \in DOMAIN parentByPath
                                 /\ parentByPath[files[j]] # Null
                                 /\ parentByPath[files[j]] = path}})

\* walk(path) of orderByParentMap; w = [out, visited].
RECURSIVE walk(_, _, _, _)
RECURSIVE walkKids(_, _, _, _, _)
walk(path, w, files, parentByPath) ==
  IF path \in w.visited THEN w
  ELSE LET w1 == [out |-> IF path \in Range(files) THEN Append(w.out, path)
                          ELSE w.out,
                  visited |-> w.visited \cup {path}]
       IN walkKids(childrenOf(path, files, parentByPath), 1, w1, files,
                   parentByPath)

walkKids(kids, i, w, files, parentByPath) ==
  IF i > Len(kids) THEN w
  ELSE walkKids(kids, i + 1, walk(kids[i], w, files, parentByPath), files,
                parentByPath)

\* An order by path alone, whatever the parents.
orderByPath(rootPath, files, parentByPath) == sortPaths(Range(files))

\* Exporter.orderByParentMap
orderByParentMap(rootPath, files, parentByPath) ==
  LET w0 == [out |-> <<>>, visited |-> {}]
      w1 == IF rootPath \in Range(files)
            THEN walk(rootPath, w0, files, parentByPath) ELSE w0
      remaining == sortPaths(Range(files) \ w1.visited)
  IN walkKids(remaining, 1, w1, files, parentByPath).out

\* ensureRootPresent(root, files)
ensureRootPresent(rootPath, files) ==
  IF rootPath \in Range(files) THEN files ELSE <<rootPath>> \o files

\* files.filter((f) => selectedPaths.has(f.path))
RECURSIVE filterSeq(_, _)
filterSeq(s, S) ==
  IF s = <<>> THEN <<>>
  ELSE (IF Head(s) \in S THEN <<Head(s)>> ELSE <<>>) \o filterSeq(Tail(s), S)

\* --------------------------------------------------------- export inputs

\* The injective sequences over S of length at most n.
Arrangements(S, n) ==
  UNION {{s \in [1..k -> S] : \A i, j \in 1..k : i # j => s[i] # s[j]} :
           k \in 0..n}

\* The export sets buildExportSet can return for `rootPath`: the root first
\* (unique([root, ...]) and the BFS of getGraph both start with it).
FileSeqs(rootPath) ==
  {<<rootPath>> \o s : s \in Arrangements(Vault \ {rootPath}, MaxFiles - 1)}

NoLinks == [p \in Vault |-> <<>>]
NoFrontmatter == [p \in Vault |-> Null]

\* The links of document f among the (source, destination) pairs `edges`,
\* in order: cache.links of f, each resolved by getFirstLinkpathDest.
RECURSIVE linksFromEdges(_, _)
linksFromEdges(edges, f) ==
  IF edges = <<>> THEN <<>>
  ELSE (IF Head(edges)[1] = f THEN <<Head(edges)[2]>> ELSE <<>>)
       \o linksFromEdges(Tail(edges), f)

\* The link tables read by buildHierarchy for an export set: at most
\* MaxLinks links in all, in the non-root documents of the set (the links of
\* the root and of documents outside the set are never read).
LinkConfigs(rootPath, fs) ==
  LET srcs == Range(fs) \ {rootPath}
      E == UNION {[1..k -> srcs \X Vault] : k \in 0..MaxLinks}
  IN {[p \in Vault |-> linksFromEdges(e, p)] : e \in E}

\* The resolved frontmatter parents of the non-root documents of the set.
FrontmatterConfigs(rootPath, fs) ==
  {fm \in [Vault -> Vault \cup {Null}] :
     \A p \in Vault : p \notin Range(fs) \ {rootPath} => fm[p] = Null}

\* ------------------------------------------------------------------ state
VARIABLES
  root,          \* the root document of the export
  files,         \* the export set, as buildExportSet returns it
  hierarchyMode, \* HierarchyMode of the run (opts, else the settings)
  policy,        \* ManyToManyPolicy of the run
  links,         \* document -> resolved link destinations, in order
  frontmatter,   \* document -> resolved frontmatter parent, or Null
  parentByPath,  \* hier.parentPathByPath of the run
  ordered,       \* the processing order of the run
  pc,            \* where the program is
  idx,           \* exportInternal's idx (pass 1) and j (pass 2)
  settings,      \* ConfluenceSettings, the fields the engine reads
  prevParent,    \* onConfirm's prevParent, the setting an export run overrides
  mapping,       \* MappingService.store: document -> pageId, 0 when absent
  saved,         \* the mapping persisted in the plugin data
  remote,        \* the remote space: page id -> page, for the pages it holds
  nextId,        \* the id the remote gives the next created page
  snapshots,     \* SnapshotService: document -> [md, storage]
  selectedPaths, \* exportInternal's selectedPaths: [all, paths]
  plan,          \* the items of the open review modal: document -> item
  ctx,           \* the ExportReviewContext of the open review modal
  planCtx,       \* history: the context the shown plan was built for
  labelsOff,     \* history: the documents confirmed as skip by their label toggle
  unlabelled,    \* history: the documents confirmed for export, label toggle off
  writes,        \* history: the remote writes issued so far
  done1,         \* history: documents whose pass-1 step returned normally
  done2,         \* history: documents whose pass-2 step returned normally
  threw,         \* history: documents whose step raised an error
  dropped,       \* history: documents whose entry pass 2 removed, not yet recreated
  faults,        \* number of injected remote or storage failures
  saves,         \* history: the saves of the identity map by pass 1 of the run
  input,         \* the argument of a call of a pure function
  output,        \* what the call returned
  savedSettings, \* the settings persisted in the plugin data
  loaded         \* the plugin data each suspended save has read

\* No call of a pure function is in progress.
NoCall == <<>>

hierarchyVars == <<root, files, hierarchyMode, policy, links, frontmatter,
                   parentByPath, ordered>>
storeVars == <<mapping, saved, remote, nextId, snapshots>>
historyVars == <<writes, done1, done2, threw, dropped, faults, saves>>
reviewVars == <<plan, ctx, planCtx, labelsOff, unlabelled>>
callVars == <<input, output>>
dataVars == <<savedSettings, loaded>>

\* No save of the plugin data is suspended.
NoLoads == <<>>

vars == <<hierarchyVars, pc, idx, settings, prevParent, storeVars, selectedPaths,
          reviewVars, historyVars, callVars, dataVars>>

\* ------------------------------------------------------ the remote space

\* A page id is a positive number; NoPage stands for an undefined page id.
NoPage == 0

\* Most documents in the export set of one export run.
MaxRunFiles == 3

\* Most remote or storage operations that fail in one behaviour.
MaxFaults == 1

\* The page the parentPageId setting names.
ParentPage == 2 * Cardinality(Vault) + 1

\* The id of the page exported for document d by an earlier run.
earlierPage(d) == Rank(d)

\* The id of a page that someone made with the title of document d after
\* the exported page was deleted.
laterPage(d) == Cardinality(Vault) + Rank(d)

\* TFile.basename
basename(d) == d[Len(d)]

\* The labels the tags of a document ask for, and the documents that embed
\* an image.
desiredLabels(d) == IF d = P_guide THEN {"howto"} ELSE {}
EmbedDocs == {P_install}

\* The operations that can fail, by the place of the call; and the two
\* moments of pass 2 at which the page may be found deleted by someone else.
FaultPoints ==
  {"updatePage", "searchPageByTitle", "updateFound", "createPage",
   "writeSnapshot", "writeStorageSnapshot", "readStorageSnapshot",
   "getLabels", "uploadAttachment", "getPageWithStorage", "updatePage2",
   "deletedBeforeFetch", "deletedBeforeUpdate"}

\* The remote writes, as recorded in the history.
Write(kind, page, d, pass) ==
  [kind |-> kind, page |-> page, doc |-> d, pass |-> pass, via |-> "id"]

\* The write of a page that the title search found.
foundByTitle(w) == [w EXCEPT !.via = "title"]

PageWrites == {"createPage", "updatePage"}

\* An error leaves the call: the operation that raised it has changed nothing.
raise(st) == [st EXCEPT !.threw = TRUE, !.faulted = TRUE]

\* An error that its caller swallows.
swallowed(st) == [st EXCEPT !.faulted = TRUE]

\* ConfluenceClient.searchPageByTitle, without ancestor: the pages of the
\* space that carry the title.
searchPageByTitle(pages, title) ==
  {id \in DOMAIN pages : pages[id].title = title}

\* ConfluenceClient.updatePage: the page takes the title and the body.
updatePage(st, id, d, w) ==
  [st EXCEPT !.remote[id].title = basename(d),
             !.remote[id].body = "cur",
             !.writes = @ \cup {w},
             !.pageId = id]

\* ConfluenceClient.createPage: a new page under parentId.
createPage(st, d, parentId) ==
  LET id == st.nextId
      page == [title |-> basename(d), parent |-> parentId, body |-> "cur",
               labels |-> {}, att |-> FALSE]
  IN [st EXCEPT !.remote = [i \in DOMAIN st.remote \cup {id} |->
                              IF i = id THEN page ELSE st.remote[i]],
                !.nextId = id + 1,
                !.writes = @ \cup {Write("createPage", id, d, 1)},
                !.pageId = id]

\* Exporter.syncLabelsForPage, with the try/catch of its callers.
syncLabelsForPage(s, st, id, d, pass, fault) ==
  IF fault = "getLabels" THEN swallowed(st)
  ELSE
    LET existing == st.remote[id].labels
        desired == desiredLabels(d)
        toAdd == desired \ existing
        toRemove == existing \ desired
        added == IF toAdd # {}
                 THEN [st EXCEPT !.remote[id].labels = @ \cup toAdd,
                                 !.writes = @ \cup
                                   {Write("addLabels", id, d, pass)}]
                 ELSE st
    IN IF s.labelSyncMode = "strict" /\ toRemove # {}
       THEN [added EXCEPT !.remote[id].labels = @ \ toRemove,
                          !.writes = @ \cup
                            {Write("removeLabels", id, d, pass)}]
       ELSE added

\* Snapshot writes without a try/catch: a failed write leaves the step.
writeSnapshotsUncaught(st, d, fault) ==
  IF fault \in {"writeSnapshot", "writeStorageSnapshot"} THEN raise(st)
  ELSE [st EXCEPT !.snapshots[d] = [md |-> "cur", storage |-> "cur"]]

\* SnapshotService.writeSnapshot and writeStorageSnapshot, each in its own
\* try/catch.
writeSnapshots(st, d, fault) ==
  LET md == IF fault = "writeSnapshot" THEN swallowed(st)
            ELSE [st EXCEPT !.snapshots[d].md = "cur"]
  IN IF fault = "writeStorageSnapshot" THEN swallowed(md)
     ELSE [md EXCEPT !.snapshots[d].storage = "cur"]

\* Exporter.uploadEmbedsForPage, with the try/catch of its caller: an
\* embedded image is uploaded when the page holds no copy of it.
uploadEmbedsForPage(st, id, d, pass, fault) ==
  IF d \notin EmbedDocs THEN st
  ELSE IF fault = "uploadAttachment" THEN swallowed(st)
  ELSE IF st.remote[id].att THEN st
  ELSE [st EXCEPT !.remote[id].att = TRUE,
                  !.writes = @ \cup {Write("uploadAttachment", id, d, pass)}]

\* An update that writes the snapshots of the document before it fails.
updateFailedAfterSnapshots(st, d) ==
  raise([st EXCEPT !.snapshots[d] = [md |-> "cur", storage |-> "cur"]])

\* Exporter.ensurePageForFile: updatePage of the mapped page fails with an
\* error other than 404, which is thrown on; no later statement runs.
updateFailed(st, d) == raise(st)

\* Exporter.ensurePageForFile.  found is the answer of the title search.
ensurePageForFile(s, st, d, parentIdOverride, fault, found) ==
  LET mapped == st.mapping[d]
      a == IF mapped # NoPage /\ s.updateExisting
           THEN IF mapped \notin DOMAIN st.remote
                THEN [st EXCEPT !.mapping[d] = NoPage]
                ELSE IF fault = "updatePage" THEN updateFailed(st, d)
                ELSE updatePage(st, mapped, d, Write("updatePage", mapped, d, 1))
           ELSE st
      b == IF ~a.threw /\ a.pageId = NoPage /\ s.updateExisting
           THEN IF fault = "searchPageByTitle" THEN raise(a)
                ELSE IF found = NoPage THEN a
                ELSE IF fault = "updateFound" THEN raise(a)
                ELSE updatePage(a, found, d,
                                foundByTitle(Write("updatePage", found, d, 1)))
           ELSE a
      parentId == IF parentIdOverride # NoPage THEN parentIdOverride
                  ELSE s.parentPageId
      c == IF ~b.threw /\ b.pageId = NoPage
           THEN IF fault = "createPage" THEN raise(b)
                ELSE createPage(b, d, parentId)
           ELSE b
      m == [c EXCEPT !.mapping[d] = c.pageId]
      n == IF ~s.dryRun THEN writeSnapshots(m, d, fault) ELSE m
      l == syncLabelsForPage(s, n, c.pageId, d, 1, fault)
  IN IF c.threw THEN c
     ELSE uploadEmbedsForPage(l, c.pageId, d, 1, fault)

\* Someone else deletes the page id.
deletePage(st, id) ==
  [st EXCEPT !.remote = [i \in DOMAIN st.remote \ {id} |-> st.remote[i]],
             !.faulted = TRUE]

\* A pass 2 that returns on a 404 and leaves the entry in the map.
keepEntry(st, d) == st

\* Exporter.updatePageContentWithLinks, both catch blocks: on a 404 the
\* entry of the document is removed and the step returns.
dropEntry(st, d) == [st EXCEPT !.mapping[d] = NoPage]

\* A pass 2 that updates the page without comparing it with the baseline.
updatePageContentUncompared(s, st, d, fault) ==
  LET entry == st.mapping[d]
  IN IF entry = NoPage THEN st
     ELSE IF entry \notin DOMAIN st.remote THEN dropEntry(st, d)
     ELSE writeSnapshots(
            syncLabelsForPage(
              s, updatePage(st, entry, d, Write("updatePage", entry, d, 2)),
              entry, d, 2, fault),
            d, fault)

\* Exporter.updatePageContentWithLinks
updatePageContentWithLinks(s, st, d, fault) ==
  LET entry == st.mapping[d]
      existing == st.remote[entry]
      snap == IF fault = "readStorageSnapshot" THEN "none"
              ELSE st.snapshots[d].storage
      st1 == IF fault = "readStorageSnapshot" THEN swallowed(st) ELSE st
      baseline == IF snap # "none" THEN snap ELSE existing.body
      bodyUnchanged == baseline = "cur"
      titleUnchanged == existing.title = basename(d)
  IN IF entry = NoPage THEN st
     ELSE IF entry \notin DOMAIN st.remote THEN dropEntry(st, d)
     ELSE IF fault = "deletedBeforeFetch"
     THEN dropEntry(deletePage(st, entry), d)
     ELSE IF fault = "getPageWithStorage" THEN raise(st)
     ELSE IF bodyUnchanged /\ titleUnchanged
     THEN writeSnapshots(syncLabelsForPage(s, st1, entry, d, 2, fault),
                         d, fault)
     ELSE IF fault = "deletedBeforeUpdate"
     THEN dropEntry(deletePage(st1, entry), d)
     ELSE IF fault = "updatePage2" THEN raise(st1)
     ELSE writeSnapshots(
            syncLabelsForPage(
              s, updatePage(st1, entry, d, Write("updatePage", entry, d, 2)),
              entry, d, 2, fault),
            d, fault)

\* ----------------------------------------------------------- export runs

\* The stores and the history, as one value the steps of a run transform.
env ==
  [mapping |-> mapping, remote |-> remote, nextId |-> nextId,
   snapshots |-> snapshots, writes |-> writes, threw |-> FALSE,
   faulted |-> FALSE, pageId |-> NoPage]

\* The failures a step may meet.
FaultChoices ==
  IF faults < MaxFaults THEN FaultPoints \cup {"none"} ELSE {"none"}

\* The answers a title search may give: a page that carries the title, none
\* when no page does.
searchAnswers(title) ==
  IF searchPageByTitle(remote, title) = {} THEN {NoPage}
  ELSE searchPageByTitle(remote, title)

\* A loop that would go on after a failed step.
errorIsCaught(stepThrew) == FALSE

\* Exporter.exportInternal, lines 176-208 and 222-228: the loops of both
\* passes have no try/catch, an error of a step leaves the loop.
errorPropagates(stepThrew) == stepThrew

\* MappingService.save is called after every SaveEvery-th document of pass 1.
SaveEvery == 5

\* The saves of the identity map that follow iteration i of the pass-1
\* loop: the one of every SaveEvery-th iteration, and the one after the loop.
savesEach(i, last) ==
  1 + (IF last THEN 1 ELSE 0)

savesAfter(i, last) ==
  (IF i % SaveEvery = 0 THEN 1 ELSE 0) + (IF last THEN 1 ELSE 0)

\* Exporter.exportInternal, lines 182-203: the parent id handed to
\* ensurePageForFile.
parentIdOverride(s, f, rootPath, mode, parents, map) ==
  LET rootParent == s.parentPageId
  IN IF f = rootPath THEN rootParent
     ELSE IF mode = "flat"
     THEN IF s.childPagesUnderRoot /\ map[rootPath] # NoPage
          THEN map[rootPath] ELSE rootParent
     ELSE LET parentPath == OrElse(parents[f], rootPath)
          IN IF map[parentPath] # NoPage THEN map[parentPath]
             ELSE rootParent

\* Exporter.exportInternal, lines 135-151: the mapping is loaded and the
\* export set is filtered, completed by the root and ordered.
startRun(sel, mode, pol) ==
  LET filtered == IF sel.all THEN files ELSE filterSeq(files, sel.paths)
      inSet == ensureRootPresent(root, filtered)
      hier == buildHierarchy(root, inSet, mode, pol, links, frontmatter)
  IN /\ mapping' = saved
     /\ selectedPaths' = sel
     /\ hierarchyMode' = mode
     /\ policy' = pol
     /\ parentByPath' = hier
     /\ ordered' = orderByParentMap(root, inSet, hier)
     /\ pc' = "pass1"
     /\ idx' = 1
     /\ done1' = {}
     /\ done2' = {}
     /\ threw' = {}
     /\ saves' = 0
     /\ UNCHANGED <<root, files, links, frontmatter, saved, remote, nextId,
                    snapshots, writes, dropped, faults, callVars,
                    dataVars>>

\* onConfirm of main.ts, the finally block: the parent page setting returns
\* to what it was before the run.
restored == [settings EXCEPT !.parentPageId = prevParent]

\* The command "Export current + linked set": Exporter.exportFromRoot.
ExportNow ==
  /\ pc = "idle"
  /\ startRun([all |-> TRUE, paths |-> {}], hierarchyMode, policy)
  /\ UNCHANGED <<settings, prevParent, reviewVars>>

\* One iteration of the pass-1 loop of Exporter.exportInternal, and what
\* follows the loop after its last iteration.
Pass1Over(Faults) ==
  /\ pc = "pass1"
  /\ \E fault \in Faults, found \in searchAnswers(basename(ordered[idx])) :
       LET f == ordered[idx]
           over == parentIdOverride(settings, f, root, hierarchyMode,
                                    parentByPath, mapping)
           r == ensurePageForFile(settings, env, f, over, fault, found)
           last == idx = Len(ordered)
       IN /\ mapping' = r.mapping
          /\ remote' = r.remote
          /\ nextId' = r.nextId
          /\ snapshots' = r.snapshots
          /\ writes' = r.writes
          /\ faults' = IF r.faulted THEN faults + 1 ELSE faults
          /\ threw' = IF r.threw THEN threw \cup {f} ELSE threw
          /\ done1' = IF r.threw THEN done1 ELSE done1 \cup {f}
          /\ dropped' = IF r.threw THEN dropped ELSE dropped \ {f}
          /\ IF errorPropagates(r.threw)
             THEN pc' = "failed" /\ idx' = idx /\ saved' = saved
                  /\ saves' = saves
             ELSE /\ saved' = IF savesAfter(idx, last) > 0
                              THEN r.mapping ELSE saved
                  /\ saves' = saves + savesAfter(idx, last)
                  /\ idx' = IF last THEN 1 ELSE idx + 1
                  /\ pc' = IF ~last THEN "pass1"
                           ELSE IF settings.dryRun THEN "done" ELSE "pass2"
  /\ settings' = IF pc' \in {"done", "failed"} THEN restored ELSE settings
  /\ UNCHANGED <<callVars, dataVars, hierarchyVars, prevParent, selectedPaths, reviewVars, done2>>

\* One iteration of the pass-2 loop of Exporter.exportInternal, and what
\* follows the loop after its last iteration.
Pass2Over(Faults) ==
  /\ pc = "pass2"
  /\ \E fault \in Faults :
       LET f == ordered[idx]
           r == updatePageContentWithLinks(settings, env, f, fault)
           last == idx = Len(ordered)
       IN /\ mapping' = r.mapping
          /\ remote' = r.remote
          /\ snapshots' = r.snapshots
          /\ writes' = r.writes
          /\ faults' = IF r.faulted THEN faults + 1 ELSE faults
          /\ threw' = IF r.threw THEN threw \cup {f} ELSE threw
          /\ done2' = IF r.threw THEN done2 ELSE done2 \cup {f}
          /\ dropped' = IF mapping[f] # NoPage /\ r.mapping[f] = NoPage
                        THEN dropped \cup {f} ELSE dropped
          /\ IF errorPropagates(r.threw)
             THEN pc' = "failed" /\ idx' = idx /\ saved' = saved
             ELSE /\ saved' = IF last THEN r.mapping ELSE saved
                  /\ idx' = IF last THEN idx ELSE idx + 1
                  /\ pc' = IF last THEN "done" ELSE "pass2"
  /\ settings' = IF pc' \in {"done", "failed"} THEN restored ELSE settings
  /\ UNCHANGED <<callVars, dataVars, hierarchyVars, prevParent, selectedPaths, reviewVars, done1,
                 nextId, saves>>

\* The steps of a run in which any one operation may fail.
Pass1Step == Pass1Over(FaultChoices)
Pass2Step == Pass2Over(FaultChoices)

\* The steps of a run during which the folder of the source snapshots
\* cannot be written: every writeSnapshot fails.
Pass1StepUnwritable == Pass1Over({"writeSnapshot"})
Pass2StepUnwritable == Pass2Over({"writeSnapshot"})

\* The documents of the export runs that are checked, their root, and the
\* export sets buildExportSet may return: the root first.
RunVault == {P_index, P_guide, P_install}
RunRoot == P_index
RunFileSeqs ==
  {<<RunRoot>> \o sortPaths(S) :
     S \in {T \in SUBSET (RunVault \ {RunRoot}) :
              Cardinality(T) < MaxRunFiles}}

\* What earlier runs and other users have left for a document:
\*   new      never exported, no page carries its title
\*   titled   never exported, a page of the space carries its title
\*   synced   exported, unchanged since
\*   edited   exported, the note has changed since
\*   deleted  exported, the page has been deleted since
Situations == {"new", "titled", "synced", "edited", "deleted"}

\* What the review command may also find: a page whose labels alone, or
\* whose title alone, differ from the document's.
ReviewSituations == Situations \cup {"retagged", "retitled"}

\* What an export run may also find: the mapped page was deleted and a page
\* made since carries the title.
RunSituations == Situations \cup {"replaced"}
Mapped == {"synced", "edited", "deleted", "replaced", "retagged", "retitled"}
Published == {"synced", "retagged", "retitled"}
OtherTitle == "earlier title"

earlierMapping(sit) ==
  [d \in Vault |-> IF d \in DOMAIN sit /\ sit[d] \in Mapped
                   THEN earlierPage(d) ELSE NoPage]

earlierRemote(sit, parentId) ==
  LET held == {d \in DOMAIN sit :
                 sit[d] \in {"titled", "edited", "replaced"} \cup Published}
      pageOf(d) == IF sit[d] = "replaced" THEN laterPage(d) ELSE earlierPage(d)
      docOf(id) == CHOOSE d \in held : pageOf(d) = id
  IN [id \in {pageOf(d) : d \in held} |->
        [title |-> IF sit[docOf(id)] = "retitled" THEN OtherTitle
                   ELSE basename(docOf(id)),
         parent |-> IF sit[docOf(id)] \in {"titled", "replaced"} THEN NoPage
                    ELSE parentId,
         body |-> IF sit[docOf(id)] \in Published THEN "cur" ELSE "old",
         labels |-> IF sit[docOf(id)] \in {"synced", "retitled"}
                    THEN desiredLabels(docOf(id)) ELSE {"draft"},
         att |-> sit[docOf(id)] \in Published]]

earlierSnapshots(sit) ==
  [d \in Vault |->
     IF d \in DOMAIN sit /\ sit[d] \in Published
     THEN [md |-> "cur", storage |-> "cur"]
     ELSE IF d \in DOMAIN sit /\ sit[d] \in {"edited", "deleted", "replaced"}
     THEN [md |-> "old", storage |-> "old"]
     ELSE [md |-> "none", storage |-> "none"]]

NoSelection == [all |-> TRUE, paths |-> {}]
NoPlan == <<>>
NoCtx == [parentPageId |-> NoPage, hierarchyMode |-> "flat",
          hierarchyManyToManyPolicy |-> "firstSeen"]

\* The plugin is idle, with its settings, and the stores are as earlier
\* runs left them: each document in one of the situations sits.
InitWith(sits, labelSyncModes) ==
  /\ root = RunRoot
  /\ files \in RunFileSeqs
  /\ hierarchyMode \in {"flat", "folder"}
  /\ policy = "firstSeen"
  /\ links = NoLinks
  /\ frontmatter = NoFrontmatter
  /\ parentByPath = <<>>
  /\ ordered = <<>>
  /\ pc = "idle"
  /\ idx = 0
  /\ settings \in [dryRun : BOOLEAN, updateExisting : BOOLEAN,
                   childPagesUnderRoot : BOOLEAN,
                   parentPageId : {NoPage, ParentPage},
                   labelSyncMode : labelSyncModes]
  /\ hierarchyMode = "folder" => settings.childPagesUnderRoot
  /\ \E sit \in [Range(files) -> sits] :
       /\ saved = earlierMapping(sit)
       /\ remote = earlierRemote(sit, settings.parentPageId)
       /\ snapshots = earlierSnapshots(sit)
  /\ mapping = saved
  /\ nextId = ParentPage + 1
  /\ selectedPaths = NoSelection
  /\ plan = NoPlan
  /\ ctx = NoCtx
  /\ planCtx = NoCtx
  /\ labelsOff = {}
  /\ unlabelled = {}
  /\ savedSettings = settings
  /\ loaded = NoLoads
  /\ prevParent = settings.parentPageId
  /\ writes = {}
  /\ done1 = {}
  /\ done2 = {}
  /\ threw = {}
  /\ dropped = {}
  /\ faults = 0
  /\ saves = 0
  /\ input = NoCall
  /\ output = NoCall

\* The plugin with its default label sync mode.
InitOver(sits) == InitWith(sits, {"strict"})

Init == InitOver(RunSituations)

Next == ExportNow \/ Pass1Step \/ Pass2Step

Spec == Init /\ [][Next]_vars

\* The plugin, idle, in the vault of the two namesakes: team/notes is the
\* root, new or exported by an earlier run, and work/notes is new.
InitNamesakes ==
  /\ root = P_teamNotes
  /\ files = <<P_teamNotes, P_workNotes>>
  /\ hierarchyMode = "flat"
  /\ policy = "firstSeen"
  /\ links = [p \in Namesakes |-> <<>>]
  /\ frontmatter = [p \in Namesakes |-> Null]
  /\ parentByPath = <<>>
  /\ ordered = <<>>
  /\ pc = "idle"
  /\ idx = 0
  /\ settings \in [dryRun : BOOLEAN, updateExisting : BOOLEAN,
                   childPagesUnderRoot : BOOLEAN,
                   parentPageId : {NoPage, ParentPage},
                   labelSyncMode : {"strict"}]
  /\ \E sit \in [Namesakes -> {"new", "synced"}] :
       /\ sit[P_workNotes] = "new"
       /\ saved = [d \in Namesakes |->
                     IF sit[d] \in Mapped THEN earlierPage(d) ELSE NoPage]
       /\ remote = earlierRemote(sit, settings.parentPageId)
       /\ snapshots = [d \in Namesakes |->
                         IF sit[d] \in Published
                         THEN [md |-> "cur", storage |-> "cur"]
                         ELSE [md |-> "none", storage |-> "none"]]
  /\ mapping = saved
  /\ nextId = ParentPage + 1
  /\ selectedPaths = NoSelection
  /\ plan = NoPlan
  /\ ctx = NoCtx
  /\ planCtx = NoCtx
  /\ labelsOff = {}
  /\ unlabelled = {}
  /\ savedSettings = settings
  /\ loaded = NoLoads
  /\ prevParent = settings.parentPageId
  /\ writes = {}
  /\ done1 = {}
  /\ done2 = {}
  /\ threw = {}
  /\ dropped = {}
  /\ faults = 0
  /\ saves = 0
  /\ input = NoCall
  /\ output = NoCall

SpecNamesakes == InitNamesakes /\ [][Next]_vars

\* The documents of a larger export set, the root first, and the export
\* sets made of its first documents.
BatchVault == Vault \cup Namesakes
BatchOrder == <<P_home, P_guide, P_install, P_index, P_teamNotes, P_workNotes>>
BatchFileSeqs == {SubSeq(BatchOrder, 1, n) : n \in 1..Len(BatchOrder)}

\* The plugin, idle, before the first export of a larger export set: no
\* document has a page yet.
InitBatch ==
  /\ root = P_home
  /\ files \in BatchFileSeqs
  /\ hierarchyMode = "flat"
  /\ policy = "firstSeen"
  /\ links = [p \in BatchVault |-> <<>>]
  /\ frontmatter = [p \in BatchVault |-> Null]
  /\ parentByPath = <<>>
  /\ ordered = <<>>
  /\ pc = "idle"
  /\ idx = 0
  /\ settings \in [dryRun : BOOLEAN, updateExisting : {TRUE},
                   childPagesUnderRoot : BOOLEAN,
                   parentPageId : {NoPage},
                   labelSyncMode : {"strict"}]
  /\ saved = [d \in BatchVault |-> NoPage]
  /\ remote = <<>>
  /\ snapshots = [d \in BatchVault |-> [md |-> "none", storage |-> "none"]]
  /\ mapping = saved
  /\ nextId = ParentPage + 1
  /\ selectedPaths = NoSelection
  /\ plan = NoPlan
  /\ ctx = NoCtx
  /\ planCtx = NoCtx
  /\ labelsOff = {}
  /\ unlabelled = {}
  /\ savedSettings = settings
  /\ loaded = NoLoads
  /\ prevParent = settings.parentPageId
  /\ writes = {}
  /\ done1 = {}
  /\ done2 = {}
  /\ threw = {}
  /\ dropped = {}
  /\ faults = 0
  /\ saves = 0
  /\ input = NoCall
  /\ output = NoCall

SpecBatch == InitBatch /\ [][Next]_vars

\* Someone else changes the title of a page while an export run is
\* suspended at a remote call.
OthersRetitle ==
  /\ pc \in {"pass1", "pass2"}
  /\ faults < MaxFaults
  /\ \E id \in DOMAIN remote :
       /\ remote[id].title # OtherTitle
       /\ remote' = [remote EXCEPT ![id].title = OtherTitle]
  /\ faults' = faults + 1
  /\ UNCHANGED <<callVars, dataVars, hierarchyVars, pc, idx, settings, prevParent,
                 mapping, saved, nextId, snapshots, selectedPaths,
                 reviewVars, writes, done1, done2, threw, dropped, saves>>

\* An export run that is not a dry run, of documents that are new or were
\* exported, in a space whose pages other users retitle.
InitRetitled == InitOver({"new", "synced", "edited"}) /\ ~settings.dryRun

NextRetitled == ExportNow \/ Pass1Step \/ Pass2Step \/ OthersRetitle

SpecRetitled == InitRetitled /\ [][NextRetitled]_vars

\* An export run that is not a dry run, while the folder of the source
\* snapshots cannot be written.
InitUnwritable == Init /\ ~settings.dryRun

NextUnwritable == ExportNow \/ Pass1StepUnwritable \/ Pass2StepUnwritable

SpecUnwritable == InitUnwritable /\ [][NextUnwritable]_vars

\* The export-now command again, after a run in which pass 2 removed an
\* entry.
ExportAgain ==
  /\ pc \in {"done", "failed"}
  /\ dropped # {}
  /\ startRun([all |-> TRUE, paths |-> {}], hierarchyMode, policy)
  /\ UNCHANGED <<settings, prevParent, reviewVars>>

NextAgain == ExportNow \/ Pass1Step \/ Pass2Step \/ ExportAgain

\* Pass 2 runs only in an export that is not a dry run.
InitAgain == Init /\ ~settings.dryRun

SpecAgain == InitAgain /\ [][NextAgain]_vars

\* ------------------------------------------------------- the export plan

\* overrideAction left undefined.
NoAction == "none"

\* effectiveAction of exportPlan.ts
effectiveAction(item) ==
  IF item.overrideAction # NoAction THEN item.overrideAction
  ELSE item.action

\* The item buildExportPlan starts from for every document.
newItem ==
  [action |-> "create", selected |-> TRUE, overrideAction |-> NoAction,
   applyLabelChanges |-> TRUE, labelsChanged |-> FALSE,
   titleChanged |-> FALSE, reasonLabelsChanged |-> FALSE,
   pageId |-> NoPage]

\* An item that is recreated without the id of the page that is gone.
recreateItemWithoutId(mapped) == [newItem EXCEPT !.action = "recreate"]

\* buildExportPlan, the 404 branch of a mapped document.
recreateItem(mapped) ==
  [newItem EXCEPT !.action = "recreate", !.pageId = mapped]

\* A comparison that looks at the body alone.
needsUpdateForBodyOnly(contentDiffers, titleChanged, labelsChanged) ==
  contentDiffers

\* buildExportPlan, needsUpdate of a compared page.
needsUpdate(contentDiffers, titleChanged, labelsChanged) ==
  contentDiffers \/ titleChanged \/ labelsChanged

\* The body of the loop of buildExportPlan: the item of document d.  found
\* is the answer of the title search.
planItem(s, map, pages, snaps, d, fault, found) ==
  LET mapped == map[d]
      target == IF mapped # NoPage THEN mapped ELSE found
      oldStorageSnap == snaps[d].storage
      a == IF oldStorageSnap # "none" THEN oldStorageSnap
           ELSE pages[target].body
      contentDiffers == a # "cur"
      titleChanged == pages[target].title # basename(d)
      labelsChanged == IF fault = "getLabels" THEN desiredLabels(d) # {}
                       ELSE pages[target].labels # desiredLabels(d)
      compared(changed, tc) ==
        [newItem EXCEPT !.action = IF changed THEN "update" ELSE "skip",
                        !.selected = changed,
                        !.pageId = target,
                        !.titleChanged = tc,
                        !.labelsChanged = labelsChanged,
                        !.reasonLabelsChanged =
                           changed /\ ~tc /\ ~contentDiffers]
      skipped == [newItem EXCEPT !.action = "skip", !.selected = FALSE]
  IN IF mapped # NoPage
     THEN IF mapped \notin DOMAIN pages
          THEN recreateItem(mapped)
          ELSE IF fault = "getPageWithStorage" THEN skipped
          ELSE compared(needsUpdate(contentDiffers, titleChanged,
                                   labelsChanged),
                        titleChanged)
     ELSE IF s.updateExisting
     THEN IF fault = "searchPageByTitle" THEN skipped
          ELSE IF found = NoPage THEN newItem
          ELSE IF fault = "getPageWithStorage" THEN skipped
          ELSE compared(needsUpdate(contentDiffers, FALSE, labelsChanged),
                        FALSE)
     ELSE newItem

\* A builder that returns every item unselected.
unselectAll(item) == [item EXCEPT !.selected = FALSE]

\* buildExportPlan, before the item is pushed: a skip is never selected.
unselectSkip(item) ==
  IF item.action = "skip" THEN [item EXCEPT !.selected = FALSE] ELSE item

\* buildExportPlan of planBuilder.ts, for the documents docs; the operation
\* fault fails for document faultDoc.
buildExportPlan(s, map, pages, snaps, docs, fault, faultDoc, answers) ==
  [d \in docs |->
     unselectSkip(planItem(s, map, pages, snaps, d,
                           IF d = faultDoc THEN fault ELSE "none",
                           answers[d]))]

\* The plans rebuildPlan may return, each with the failures met.
rebuiltPlans ==
  LET docs == Range(files)
      answers == [d \in docs |->
                    CHOOSE id \in searchAnswers(basename(d)) : TRUE]
      build(fault, faultDoc) ==
        buildExportPlan(settings, saved, remote, snapshots, docs, fault,
                        faultDoc, answers)
      clean == build("none", root)
      failing == {[items |-> build(fault, d), faulted |-> TRUE,
                   fault |-> fault, doc |-> d] :
                    fault \in FaultChoices \ {"none"}, d \in docs}
  IN {[items |-> clean, faulted |-> FALSE, fault |-> "none",
       doc |-> root]} \cup
     {p \in failing : p.items # clean}

\* labelsOnlyUpdateHeuristic of ExportPlanModal.ts
labelsOnlyUpdateHeuristic(item) ==
  item.labelsChanged /\ item.reasonLabelsChanged /\ ~item.titleChanged

\* ---------------------------------------------------- the review command

\* The command "Export to Confluence (Review...)": the export set is
\* collected, the plan is built for the initial context and the modal opens.
OpenReview ==
  /\ pc = "idle"
  /\ \E p \in rebuiltPlans :
       /\ plan' = p.items
       /\ faults' = IF p.faulted THEN faults + 1 ELSE faults
  /\ mapping' = saved
  /\ ctx' = NoCtx
  /\ planCtx' = NoCtx
  /\ pc' = "review"
  /\ UNCHANGED <<callVars, dataVars, hierarchyVars, idx, settings, prevParent, saved, remote,
                 nextId, snapshots, selectedPaths, writes, done1, done2,
                 threw, dropped, saves, labelsOff, unlabelled>>

\* The same command after an export run has completed.
OpenReviewAfterExport ==
  /\ pc = "done"
  /\ \E p \in rebuiltPlans :
       /\ plan' = p.items
       /\ faults' = IF p.faulted THEN faults + 1 ELSE faults
  /\ mapping' = saved
  /\ ctx' = NoCtx
  /\ planCtx' = NoCtx
  /\ pc' = "review"
  /\ UNCHANGED <<callVars, dataVars, hierarchyVars, idx, settings, prevParent, saved,
                 remote, nextId, snapshots, selectedPaths, writes, done1,
                 done2, threw, dropped, saves, labelsOff, unlabelled>>

\* The "Parent Page" field of the modal.
SetParentPage ==
  /\ pc = "review"
  /\ \E v \in {NoPage, ParentPage} \ {ctx.parentPageId} :
       ctx' = [ctx EXCEPT !.parentPageId = v]
  /\ UNCHANGED <<callVars, dataVars, hierarchyVars, pc, idx, settings, prevParent, storeVars,
                 selectedPaths, plan, planCtx, labelsOff, unlabelled, historyVars>>

\* The "Hierarchy mode" dropdown of the modal.
SetHierarchyMode ==
  /\ pc = "review"
  /\ \E v \in {"flat", "folder"} \ {ctx.hierarchyMode} :
       ctx' = [ctx EXCEPT !.hierarchyMode = v]
  /\ UNCHANGED <<callVars, dataVars, hierarchyVars, pc, idx, settings, prevParent, storeVars,
                 selectedPaths, plan, planCtx, labelsOff, unlabelled, historyVars>>

\* The "Rebuild plan" button of the modal.
RebuildPlan ==
  /\ pc = "review"
  /\ \E p \in rebuiltPlans :
       /\ plan' = p.items
       /\ faults' = IF p.faulted THEN faults + 1 ELSE faults
  /\ mapping' = saved
  /\ planCtx' = ctx
  /\ UNCHANGED <<callVars, dataVars, hierarchyVars, pc, idx, settings, prevParent, saved, remote,
                 nextId, snapshots, selectedPaths, ctx, writes, done1, done2,
                 threw, dropped, saves, labelsOff, unlabelled>>

modalUnchanged ==
  UNCHANGED <<callVars, dataVars, hierarchyVars, pc, idx, settings, prevParent, storeVars,
              selectedPaths, ctx, planCtx, labelsOff, unlabelled, historyVars>>

\* The checkbox of an item; it is disabled for a skip and for a conflict.
ToggleItem ==
  /\ pc = "review"
  /\ \E d \in DOMAIN plan :
       /\ effectiveAction(plan[d]) \notin {"skip", "conflict"}
       /\ plan' = [plan EXCEPT ![d].selected = ~@]
  /\ modalUnchanged

\* A button that selects every item.
selectsEvery(item) == TRUE

\* "Select all" selects the items whose effective action is neither skip
\* nor conflict.
selectsAll(item) ==
  effectiveAction(item) \notin {"skip", "conflict"}

\* The bulk buttons of the modal.
SelectAll ==
  /\ pc = "review"
  /\ plan' = [d \in DOMAIN plan |->
                [plan[d] EXCEPT !.selected = selectsAll(plan[d])]]
  /\ modalUnchanged

SelectNone ==
  /\ pc = "review"
  /\ plan' = [d \in DOMAIN plan |-> [plan[d] EXCEPT !.selected = FALSE]]
  /\ modalUnchanged

SelectCreates ==
  /\ pc = "review"
  /\ plan' = [d \in DOMAIN plan |->
                [plan[d] EXCEPT !.selected =
                   effectiveAction(plan[d]) = "create"]]
  /\ modalUnchanged

SelectUpdates ==
  /\ pc = "review"
  /\ plan' = [d \in DOMAIN plan |->
                [plan[d] EXCEPT !.selected =
                   effectiveAction(plan[d]) = "update"]]
  /\ modalUnchanged

\* The "Apply label changes" toggle of an item, shown when the item has
\* label changes or desired labels.
ToggleApplyLabels ==
  /\ pc = "review"
  /\ \E d \in DOMAIN plan :
       LET item == plan[d]
           v == ~item.applyLabelChanges
           isLabelsOnly == labelsOnlyUpdateHeuristic(item)
           toggled == [item EXCEPT !.applyLabelChanges = v]
       IN /\ item.labelsChanged \/ desiredLabels(d) # {}
          /\ plan' = [plan EXCEPT ![d] =
               IF ~v /\ isLabelsOnly /\ item.action = "update"
               THEN [toggled EXCEPT !.overrideAction = "skip",
                                    !.selected = FALSE]
               ELSE IF v /\ item.overrideAction = "skip" /\ isLabelsOnly
               THEN [toggled EXCEPT !.overrideAction = NoAction,
                                    !.selected = TRUE]
               ELSE toggled]
  /\ modalUnchanged

\* The "Export selected" button: the modal closes and onConfirm of main.ts
\* runs the export of the paths of the selected items.
Confirm ==
  /\ pc = "review"
  /\ LET selected == {d \in DOMAIN plan :
                        /\ plan[d].selected
                        /\ effectiveAction(plan[d]) \notin
                             {"skip", "conflict"}}
     IN startRun([all |-> FALSE, paths |-> selected], ctx.hierarchyMode,
                 ctx.hierarchyManyToManyPolicy)
  /\ prevParent' = settings.parentPageId
  /\ settings' = [settings EXCEPT !.parentPageId = ctx.parentPageId]
  /\ plan' = NoPlan
  /\ labelsOff' = {d \in DOMAIN plan :
                     /\ ~plan[d].applyLabelChanges
                     /\ plan[d].action = "update"
                     /\ effectiveAction(plan[d]) = "skip"}
  /\ unlabelled' = {d \in DOMAIN plan :
                      /\ ~plan[d].applyLabelChanges
                      /\ plan[d].selected
                      /\ effectiveAction(plan[d]) \notin
                           {"skip", "conflict"}}
  /\ UNCHANGED <<ctx, planCtx>>

\* The "Cancel" button: the modal closes.
Cancel ==
  /\ pc = "review"
  /\ pc' = "idle"
  /\ plan' = NoPlan
  /\ ctx' = NoCtx
  /\ planCtx' = NoCtx
  /\ UNCHANGED <<callVars, dataVars, hierarchyVars, idx, settings, prevParent, storeVars,
                 selectedPaths, labelsOff, unlabelled, historyVars>>

\* An export run of the flat hierarchy, in either label sync mode, that is
\* reviewed once it has completed.
InitReexport ==
  /\ InitWith(Situations, {"strict", "addOnly"})
  /\ hierarchyMode = "flat"
  /\ ~settings.dryRun
  /\ settings.childPagesUnderRoot /\ settings.parentPageId = NoPage

NextReexport == ExportNow \/ Pass1Step \/ Pass2Step \/ OpenReviewAfterExport

SpecReexport == InitReexport /\ [][NextReexport]_vars

\* The review of an export set of three documents, two of them in a
\* folder with its folder note, each new or exported and unchanged since:
\* the hierarchy mode is chosen, the plan is rebuilt, items are selected
\* and the export is confirmed.
InitPreview ==
  /\ InitOver({"new", "synced"})
  /\ Len(files) = MaxRunFiles
  /\ ~settings.dryRun
  /\ settings.updateExisting
  /\ settings.childPagesUnderRoot
  /\ settings.parentPageId = NoPage
  /\ hierarchyMode = "flat"

NextPreview ==
  \/ OpenReview \/ SetHierarchyMode \/ RebuildPlan \/ ToggleItem
  \/ Confirm \/ Pass1Step \/ Pass2Step

SpecPreview == InitPreview /\ [][NextPreview]_vars

\* Most documents in the export set of a reviewed export.
MaxReviewFiles == 2

\* The review command is run by a plugin that exports for real, with the
\* default hierarchy settings.
InitReview ==
  /\ InitOver(ReviewSituations)
  /\ Len(files) <= MaxReviewFiles
  /\ ~settings.dryRun
  /\ settings.childPagesUnderRoot
  /\ settings.parentPageId = NoPage
  /\ hierarchyMode = "flat"

NextReview ==
  \/ OpenReview \/ SetParentPage \/ SetHierarchyMode \/ RebuildPlan
  \/ ToggleItem \/ SelectAll \/ SelectNone \/ SelectCreates \/ SelectUpdates
  \/ ToggleApplyLabels \/ Confirm \/ Cancel
  \/ Pass1Step \/ Pass2Step

SpecReview == InitReview /\ [][NextReview]_vars

\* The review modal alone, from the command that opens it to the button
\* that closes it: what the user can do to the items of the plan.
NextModal ==
  \/ OpenReview \/ RebuildPlan
  \/ ToggleItem \/ SelectAll \/ SelectNone \/ SelectCreates \/ SelectUpdates
  \/ ToggleApplyLabels \/ Confirm \/ Cancel

SpecModal == InitReview /\ [][NextModal]_vars

\* The plan builder alone, as the review command and the modal call it:
\* the modal opens, the plan is rebuilt and the modal is cancelled.
NextPlan == OpenReview \/ RebuildPlan \/ Cancel

SpecPlan == InitReview /\ [][NextPlan]_vars

\* The settings of a plugin that exports nothing.
\* --------------------------------------------------- the rename handler

\* A handler that sets the entry under the new path and leaves the old one.
copyEntry(map, oldPath, newPath) ==
  [map EXCEPT ![newPath] = map[oldPath]]

\* The rename handler of main.ts: mapping.remove(oldPath), then mapping.set
\* of the old entry with filePath the new path.
migrateEntry(map, oldPath, newPath) ==
  [map EXCEPT ![oldPath] = NoPage, ![newPath] = map[oldPath]]

\* vault.on("rename") of main.ts for the document oldPath, now at newPath:
\* the map is loaded; without an entry under oldPath the handler returns,
\* else the entry is migrated and the map is saved.
RenameFile(oldPath, newPath) ==
  /\ pc = "idle"
  /\ oldPath # newPath
  /\ newPath \notin Range(files)
  /\ IF saved[oldPath] = NoPage
     THEN mapping' = saved /\ saved' = saved
     ELSE /\ mapping' = migrateEntry(saved, oldPath, newPath)
          /\ saved' = mapping'
  /\ files' = [i \in DOMAIN files |->
                 IF files[i] = oldPath THEN newPath ELSE files[i]]
  /\ root' = IF root = oldPath THEN newPath ELSE root
  /\ UNCHANGED <<callVars, dataVars, hierarchyMode, policy, links, frontmatter, parentByPath,
                 ordered, pc, idx, settings, prevParent, remote, nextId,
                 snapshots, selectedPaths, reviewVars, historyVars>>

Rename == \E oldPath, newPath \in Vault : RenameFile(oldPath, newPath)

\* Renames happen while the plugin is idle, with its default settings.
InitRename ==
  /\ Init
  /\ hierarchyMode = "flat"
  /\ ~settings.dryRun /\ settings.updateExisting
  /\ settings.childPagesUnderRoot /\ settings.parentPageId = NoPage

NextRename == Rename

SpecRename == InitRename /\ [][NextRename]_vars

\* The same handler while an export run is suspended on a remote call, for
\* a note outside the export set: the handler and the run share one
\* MappingService, whose load replaces the map in memory by the saved one.
RenameWhileExporting(oldPath, newPath) ==
  /\ pc \in {"pass1", "pass2"}
  /\ oldPath # newPath
  /\ oldPath \notin Range(files) /\ newPath \notin Range(files)
  /\ IF saved[oldPath] = NoPage
     THEN mapping' = saved /\ saved' = saved
     ELSE /\ mapping' = migrateEntry(saved, oldPath, newPath)
          /\ saved' = mapping'
  /\ UNCHANGED <<callVars, dataVars, hierarchyVars, pc, idx, settings, prevParent,
                 remote, nextId, snapshots, selectedPaths, reviewVars,
                 historyVars>>

RenameDuringRun ==
  \E oldPath, newPath \in Vault : RenameWhileExporting(oldPath, newPath)

InitRenaming == Init /\ ~settings.dryRun /\ hierarchyMode = "flat"

NextRenaming == ExportNow \/ Pass1Step \/ Pass2Step \/ RenameDuringRun

SpecRenaming == InitRenaming /\ [][NextRenaming]_vars

\* Plugin.loadData: the plugin data as it is persisted.
loadData == [settings |-> savedSettings, mapping |-> saved]

\* A toggle of the settings tab (settings.ts): the setting is changed in
\* memory and saveSettings of main.ts reads the plugin data.
ChangeSetting ==
  /\ pc = "idle"
  /\ "saveSettings" \notin DOMAIN loaded
  /\ settings' = [settings EXCEPT !.updateExisting = ~@]
  /\ loaded' = [h \in DOMAIN loaded \cup {"saveSettings"} |->
                  IF h = "saveSettings" THEN loadData ELSE loaded[h]]
  /\ UNCHANGED <<callVars, hierarchyVars, pc, idx, prevParent, storeVars,
                 selectedPaths, reviewVars, historyVars, savedSettings>>

\* saveSettings of main.ts resumes: saveData({ ...data, settings }).
SaveSettingsData ==
  /\ "saveSettings" \in DOMAIN loaded
  /\ savedSettings' = settings
  /\ saved' = loaded["saveSettings"].mapping
  /\ loaded' = [h \in DOMAIN loaded \ {"saveSettings"} |-> loaded[h]]
  /\ UNCHANGED <<callVars, hierarchyVars, pc, idx, settings, prevParent,
                 mapping, remote, nextId, snapshots, selectedPaths,
                 reviewVars, historyVars>>

\* The rename handler of main.ts up to the loadData of MappingService.save:
\* the map is loaded, the entry is migrated and save reads the plugin data.
RenameFileLoad(oldPath, newPath) ==
  /\ pc = "idle"
  /\ "mappingSave" \notin DOMAIN loaded
  /\ oldPath # newPath
  /\ newPath \notin Range(files)
  /\ IF saved[oldPath] = NoPage
     THEN mapping' = saved /\ loaded' = loaded
     ELSE /\ mapping' = migrateEntry(saved, oldPath, newPath)
          /\ loaded' = [h \in DOMAIN loaded \cup {"mappingSave"} |->
                          IF h = "mappingSave" THEN loadData ELSE loaded[h]]
  /\ files' = [i \in DOMAIN files |->
                 IF files[i] = oldPath THEN newPath ELSE files[i]]
  /\ root' = IF root = oldPath THEN newPath ELSE root
  /\ UNCHANGED <<callVars, hierarchyMode, policy, links, frontmatter,
                 parentByPath, ordered, pc, idx, settings, prevParent, saved,
                 remote, nextId, snapshots, selectedPaths, reviewVars,
                 historyVars, savedSettings>>

RenameLoad == \E oldPath, newPath \in Vault : RenameFileLoad(oldPath, newPath)

\* MappingService.save resumes: saveData({ ...data, mapping: this.store }).
MappingSaveData ==
  /\ "mappingSave" \in DOMAIN loaded
  /\ saved' = mapping
  /\ savedSettings' = loaded["mappingSave"].settings
  /\ loaded' = [h \in DOMAIN loaded \ {"mappingSave"} |-> loaded[h]]
  /\ UNCHANGED <<callVars, hierarchyVars, pc, idx, settings, prevParent,
                 mapping, remote, nextId, snapshots, selectedPaths,
                 reviewVars, historyVars>>

\* The settings tab and the rename handler of an idle plugin, each
\* suspended between its read and its write of the plugin data.
NextData == ChangeSetting \/ SaveSettingsData \/ RenameLoad \/ MappingSaveData

\* The plugin, idle, with one exported document.
InitData == InitRename /\ Len(files) = 1 /\ saved[root] # NoPage

SpecData == InitData /\ [][NextData]_vars

NoSettings ==
  [dryRun |-> FALSE, updateExisting |-> TRUE, childPagesUnderRoot |-> TRUE,
   parentPageId |-> NoPage, labelSyncMode |-> "strict"]

\* ------------------------------------------- the hierarchy resolver alone

\* The inputs of one call of computeHierarchyAndOrder.  A mode is given the
\* inputs it reads: links in links and hybrid mode, frontmatter parents in
\* frontmatter mode.
InitHierarchy ==
  /\ root \in Vault
  /\ files \in FileSeqs(root)
  /\ hierarchyMode \in HierarchyModes
  /\ policy \in ManyToManyPolicies
  /\ links \in IF hierarchyMode \in {"links", "hybrid"}
               THEN LinkConfigs(root, files) ELSE {NoLinks}
  /\ frontmatter \in IF hierarchyMode = "frontmatter"
                     THEN FrontmatterConfigs(root, files) ELSE {NoFrontmatter}
  /\ parentByPath = <<>>
  /\ ordered = <<>>
  /\ pc = "input"
  /\ idx = 0
  /\ settings = NoSettings
  /\ prevParent = NoPage
  /\ mapping = earlierMapping(<<>>)
  /\ saved = mapping
  /\ remote = <<>>
  /\ nextId = ParentPage + 1
  /\ snapshots = earlierSnapshots(<<>>)
  /\ selectedPaths = NoSelection
  /\ plan = NoPlan
  /\ ctx = NoCtx
  /\ planCtx = NoCtx
  /\ labelsOff = {}
  /\ unlabelled = {}
  /\ savedSettings = settings
  /\ loaded = NoLoads
  /\ writes = {}
  /\ done1 = {}
  /\ done2 = {}
  /\ threw = {}
  /\ dropped = {}
  /\ faults = 0
  /\ saves = 0
  /\ input = NoCall
  /\ output = NoCall

\* Exporter.computeHierarchyAndOrder
ComputeHierarchyAndOrder ==
  /\ pc = "input"
  /\ LET hier == buildHierarchy(root, files, hierarchyMode, policy, links,
                                frontmatter)
     IN /\ parentByPath' = hier
        /\ ordered' = orderByParentMap(root, files, hier)
  /\ pc' = "ordered"
  /\ UNCHANGED <<callVars, dataVars, root, files, hierarchyMode, policy, links, frontmatter, idx,
                 settings, prevParent, storeVars, selectedPaths, reviewVars,
                 historyVars>>

NextHierarchy == ComputeHierarchyAndOrder

SpecHierarchy == InitHierarchy /\ [][NextHierarchy]_vars

\* ------------------------------------------------- storageNormalise.ts
\* A storage text is a sequence of tokens: a piece of text (a letter, a
\* space, a line feed, the entity &nbsp;), an opening tag with its
\* attributes in the order they are written, or a closing tag. Inside a tag
\* an attribute is written name="value", one space before it.
Tok(kind, name, attrs) == [kind |-> kind, name |-> name, attrs |-> attrs]
Chr(c) == Tok("text", c, <<>>)
Letter == Chr("x")
Space == Chr(" ")
LineFeed == Chr("\n")
Nbsp == Chr("&nbsp;")
Attr(name, value) == [name |-> name, value |-> value]
OpenTag(name, attrs) == Tok("open", name, attrs)
CloseTag(name) == Tok("close", name, <<>>)

\* What the class \s of a regular expression matches, and the tokens that
\* start with "<" and end with ">".
isWhitespace(t) == t \in {Space, LineFeed}
isTag(t) == t.kind \in {"open", "close"}

\* The tokens of s at the positions of Keep, in order.
RECURSIVE keepAt(_, _)
keepAt(s, Keep) ==
  IF s = <<>> THEN <<>>
  ELSE LET n == Len(s)
           front == keepAt(SubSeq(s, 1, n - 1), Keep)
       IN IF n \in Keep THEN Append(front, s[n]) ELSE front

\* String.prototype.trim
RECURSIVE trimStart(_)
trimStart(s) ==
  IF s # <<>> /\ isWhitespace(Head(s)) THEN trimStart(Tail(s)) ELSE s

RECURSIVE trimEnd(_)
trimEnd(s) ==
  IF s # <<>> /\ isWhitespace(s[Len(s)])
  THEN trimEnd(SubSeq(s, 1, Len(s) - 1)) ELSE s

trim(s) == trimEnd(trimStart(s))

\* replace(/[ \t]+/g, " ") with c a space, replace(/\n{2,}/g, "\n") with c
\* a line feed: of a run of c only the first is kept.
collapseRuns(s, c) ==
  keepAt(s, {i \in 1..Len(s) : ~(i > 1 /\ s[i] = c /\ s[i - 1] = c)})

\* The nearest token before (after) position i that is not whitespace is a
\* tag.
RECURSIVE tagBefore(_, _)
tagBefore(s, i) ==
  /\ i > 1
  /\ IF isWhitespace(s[i - 1]) THEN tagBefore(s, i - 1) ELSE isTag(s[i - 1])

RECURSIVE tagAfter(_, _)
tagAfter(s, i) ==
  /\ i < Len(s)
  /\ IF isWhitespace(s[i + 1]) THEN tagAfter(s, i + 1) ELSE isTag(s[i + 1])

\* replace(/>\s+</g, "><")
removeInterTagWhitespace(s) ==
  keepAt(s, {i \in 1..Len(s) :
               ~(isWhitespace(s[i]) /\ tagBefore(s, i) /\ tagAfter(s, i))})

\* replace(/&nbsp;|&#160;|&#xA0;/gi, " ")
replaceNbsp(s) == [i \in 1..Len(s) |-> IF s[i] = Nbsp THEN Space ELSE s[i]]

\* The attributes normaliseStorage strips, in the order it strips them.
VolatileAttributes ==
  <<"data-mce-style", "data-mce-bogus", "data-mce-selected", "data-mce-href",
    "contenteditable", "spellcheck", "ri:version-at-save", "ac:macro-id",
    "ac:local-id", "ac:schema-version">>

\* stripAttributeEverywhere
stripAttributeEverywhere(html, attrName) ==
  [i \in 1..Len(html) |->
     IF html[i].kind = "open"
     THEN [html[i] EXCEPT !.attrs =
             keepAt(@, {k \in 1..Len(@) : @[k].name # attrName})]
     ELSE html[i]]

RECURSIVE stripAttributes(_, _)
stripAttributes(s, names) ==
  IF names = <<>> THEN s
  ELSE stripAttributes(stripAttributeEverywhere(s, Head(names)), Tail(names))

\* The position of the closing tag when s starts with <p>, whitespace and
\* </p>, else 0: one match of /<p>\s*<\/p>/.
RECURSIVE closingAfterWhitespace(_, _)
closingAfterWhitespace(s, i) ==
  IF i > Len(s) THEN 0
  ELSE IF s[i] = CloseTag("p") THEN i
  ELSE IF isWhitespace(s[i]) THEN closingAfterWhitespace(s, i + 1)
  ELSE 0

emptyParagraphEnd(s) ==
  IF Head(s) = OpenTag("p", <<>>) THEN closingAfterWhitespace(s, 2) ELSE 0

\* replace(/<p>\s*<\/p>/gi, ""): one pass from the left, the search going
\* on after each match.
RECURSIVE removeEmptyParagraphs(_)
removeEmptyParagraphs(s) ==
  IF s = <<>> THEN <<>>
  ELSE LET k == emptyParagraphEnd(s)
       IN IF k > 0 THEN removeEmptyParagraphs(SubSeq(s, k + 1, Len(s)))
          ELSE <<Head(s)>> \o removeEmptyParagraphs(Tail(s))

\* The tags whose attributes sortAttributesForKnownTags sorts.
tagNames ==
  {"ac:structured-macro", "ac:parameter", "ac:link", "ac:image", "ri:page",
   "ri:attachment", "ri:url"}

\* The attribute names of the model, in the order of localeCompare on
\* their lower case, and the place of a name in that order.
AttrNames == <<"ac:anchor", "ac:local-id", "ac:tooltip">>
attrRank(name) == CHOOSE i \in 1..Len(AttrNames) : AttrNames[i] = name

\* Array.prototype.sort by attribute name: a stable sort.
RECURSIVE sortByName(_)
sortByName(attrs) ==
  IF attrs = <<>> THEN <<>>
  ELSE LET n == Len(attrs)
           a == attrs[n]
           front == sortByName(SubSeq(attrs, 1, n - 1))
           k == Cardinality({i \in 1..Len(front) :
                  attrRank(front[i].name) <= attrRank(a.name)})
       IN SubSeq(front, 1, k) \o <<a>> \o SubSeq(front, k + 1, Len(front))

keepAttributeOrder(html) == html

\* sortAttributesForKnownTags
sortAttributesForKnownTags(html) ==
  [i \in 1..Len(html) |->
     IF html[i].kind = "open" /\ html[i].name \in tagNames
     THEN [html[i] EXCEPT !.attrs = sortByName(@)]
     ELSE html[i]]

\* normaliseStorage. The steps between are the identity on the texts of
\* the model, which hold no <br>, <hr>, <li>, CDATA link body, structured
\* macro nor punctuation entity.
normaliseStorage(storage) ==
  IF storage = <<>> THEN <<>>
  ELSE LET trimmed == trim(storage)
           spaces == collapseRuns(trimmed, Space)
           lines == collapseRuns(spaces, LineFeed)
           joined == removeInterTagWhitespace(lines)
           nbsp == replaceNbsp(joined)
           stripped == stripAttributes(nbsp, VolatileAttributes)
           paragraphs == removeEmptyParagraphs(stripped)
           sorted == sortAttributesForKnownTags(paragraphs)
       IN trim(removeInterTagWhitespace(sorted))

\* The longest text without attributes, and the longest text with a tag
\* that has attributes, that is normalised.
MaxTextLen == 4
MaxTagTextLen == 2

\* The most attributes of a tag.
MaxAttrs == 2

TextsOver(Tokens, n) == UNION {[1..k -> Tokens] : k \in 0..n}

PlainTokens ==
  {Letter, Space, LineFeed, Nbsp, OpenTag("p", <<>>), CloseTag("p")}

\* The attribute lists of a tag: no name twice.
AttrLists ==
  {a \in TextsOver({Attr(AttrNames[k], "1") : k \in 1..Len(AttrNames)},
                   MaxAttrs) :
     \A i, j \in 1..Len(a) : i # j => a[i].name # a[j].name}

\* A tag whose attributes are sorted, and one whose attributes are not.
TagTokens == {OpenTag(t, a) : t \in {"ac:link", "span"}, a \in AttrLists}

\* The texts that end with such a tag.
TagTexts ==
  {Append(before, t) :
     before \in TextsOver({Space, OpenTag("p", <<>>)}, MaxTagTextLen - 1),
     t \in TagTokens}

StorageTexts == TextsOver(PlainTokens, MaxTextLen) \cup TagTexts

\* The plugin at rest, about to call a pure function on one of inputs.
InitCall(inputs) ==
  /\ input \in inputs
  /\ output = NoCall
  /\ pc = "call"
  /\ root = RunRoot
  /\ files = <<RunRoot>>
  /\ hierarchyMode = "flat"
  /\ policy = "firstSeen"
  /\ links = NoLinks
  /\ frontmatter = NoFrontmatter
  /\ parentByPath = <<>>
  /\ ordered = <<>>
  /\ idx = 0
  /\ settings = NoSettings
  /\ prevParent = NoPage
  /\ mapping = earlierMapping(<<>>)
  /\ saved = mapping
  /\ remote = <<>>
  /\ nextId = ParentPage + 1
  /\ snapshots = earlierSnapshots(<<>>)
  /\ selectedPaths = NoSelection
  /\ plan = NoPlan
  /\ ctx = NoCtx
  /\ planCtx = NoCtx
  /\ labelsOff = {}
  /\ unlabelled = {}
  /\ savedSettings = settings
  /\ loaded = NoLoads
  /\ writes = {}
  /\ done1 = {}
  /\ done2 = {}
  /\ threw = {}
  /\ dropped = {}
  /\ faults = 0
  /\ saves = 0

callUnchanged ==
  UNCHANGED <<hierarchyVars, idx, settings, prevParent, storeVars,
              selectedPaths, reviewVars, historyVars, dataVars>>

\* A call of normaliseStorage.
NormaliseStorage ==
  /\ pc = "call"
  /\ output' = normaliseStorage(input)
  /\ pc' = "normalised"
  /\ UNCHANGED input
  /\ callUnchanged

InitNormalise == InitCall(StorageTexts)

NextNormalise == NormaliseStorage

SpecNormalise == InitNormalise /\ [][NextNormalise]_vars

\* ---------------------------------------------------- ConfluenceClient
\* A URL is the sequence of what its slashes separate: https://site/wiki is
\* <<"https://site", "wiki">>, and a slash at the end leaves an empty piece.
RECURSIVE stripTrailingSlashes(_)
stripTrailingSlashes(s) ==
  IF s # <<>> /\ s[Len(s)] = ""
  THEN stripTrailingSlashes(SubSeq(s, 1, Len(s) - 1)) ELSE s

\* base.endsWith("/wiki") and c.includes("/wiki/")
endsWithWiki(base) == Len(base) >= 2 /\ base[Len(base)] = "wiki"
includesWiki(c) == \E i \in 2..(Len(c) - 1) : c[i] = "wiki"
excludesWiki(c) == ~includesWiki(c)

\* ConfluenceClient.authHeaders: the Authorization header, <<>> for none.
authHeaders(cfg) ==
  IF cfg.authMode = "bearer"
  THEN IF cfg.bearerToken # "" THEN <<"Bearer", cfg.bearerToken>> ELSE <<>>
  ELSE <<"Basic", cfg.username, cfg.passwordOrToken>>

\* ConfluenceClient.rawCall: the requests sent so far and this one.
rawCall(requests, cfg, url) ==
  Append(requests, [url |-> url, authorization |-> authHeaders(cfg)])

\* ensureRestRoot, lines 344-360: the REST roots to try, in order.
restCandidates(cfg) ==
  LET base == stripTrailingSlashes(cfg.baseUrl)
      candidates ==
        IF endsWithWiki(base) THEN <<base \o <<"rest", "api">>>>
        ELSE <<base \o <<"wiki", "rest", "api">>, base \o <<"rest", "api">>,
               base \o <<"confluence", "rest", "api">>>>
  IN IF cfg.mode = "cloud" THEN SelectSeq(candidates, includesWiki)
     ELSE IF cfg.mode = "selfHosted" THEN SelectSeq(candidates, excludesWiki)
     ELSE candidates

\* What a call of the client comes to: the requests it sent, the REST root
\* it returned or the error it threw.
Returned(requests, rest) ==
  [requests |-> requests, rest |-> rest, error |-> "none"]
Threw(requests, error) ==
  [requests |-> requests, rest |-> <<>>, error |-> error]

\* ensureRestRoot, lines 362-376: the loop over the candidates; answers[k]
\* says whether the server answers the k-th request below status 400.
RECURSIVE tryCandidates(_, _, _, _)
tryCandidates(cfg, rests, answers, requests) ==
  IF rests = <<>> THEN Threw(requests, "Could not detect Confluence REST root")
  ELSE LET sent == rawCall(requests, cfg, Head(rests) \o <<"space?limit=1">>)
       IN IF answers[Len(sent)] THEN Returned(sent, Head(rests))
          ELSE tryCandidates(cfg, Tail(rests), answers, sent)

\* ConfluenceClient.ensureRestRoot of a client that rebuildServices has
\* just made: its restRootCache is empty.
ensureRestRoot(cfg, answers) ==
  IF cfg.restApiPathOverride # <<>>
  THEN LET rest == stripTrailingSlashes(stripTrailingSlashes(cfg.baseUrl)
                                          \o cfg.restApiPathOverride)
           sent == rawCall(<<>>, cfg, rest \o <<"space?limit=1">>)
       IN IF answers[1] THEN Returned(sent, rest)
          ELSE Threw(sent, "GET failed")
  ELSE tryCandidates(cfg, restCandidates(cfg), answers, <<>>)

\* The configurations of the client: the site with and without /wiki and a
\* slash at the end, and each credential filled in or left empty.
ClientConfigs ==
  [baseUrl : {<<"https://site">>, <<"https://site", "wiki">>,
              <<"https://site", "wiki", "">>},
   mode : {"auto", "cloud", "selfHosted"},
   restApiPathOverride : {<<>>, <<"rest", "api">>},
   authMode : {"basic", "bearer"},
   username : {"", "user"},
   passwordOrToken : {"", "secret"},
   bearerToken : {"", "token"}]

\* The first call of the client in a command: the REST root is detected.
EnsureRestRoot ==
  /\ pc = "call"
  /\ \E answers \in [1..Len(restCandidates(input)) + 1 -> BOOLEAN] :
       output' = ensureRestRoot(input, answers)
  /\ pc' = "answered"
  /\ UNCHANGED input
  /\ callUnchanged

InitClient == InitCall(ClientConfigs)

NextClient == EnsureRestRoot

SpecClient == InitClient /\ [][NextClient]_vars

\* ------------------------------------------- confluenceStorageConverter.ts
\* A source text is a paragraph of pieces: plain text, [[inner]] or
\* ![[inner]]; text and inner are sequences of characters.
Chars(str) == [i \in 1..Len(str) |-> Chr(str[i])]

\* String.prototype.split on one character.
RECURSIVE split(_, _)
split(s, sep) ==
  IF \A i \in 1..Len(s) : s[i] # sep THEN <<s>>
  ELSE LET k == CHOOSE i \in 1..Len(s) :
                  s[i] = sep /\ \A j \in 1..(i - 1) : s[j] # sep
       IN <<SubSeq(s, 1, k - 1)>> \o split(SubSeq(s, k + 1, Len(s)), sep)

\* escapeXml, on the characters of the model.
escapeXml(s) ==
  [i \in 1..Len(s) |->
     IF s[i] = Chr("&") THEN Chr("&amp;")
     ELSE IF s[i] = Chr("<") THEN Chr("&lt;")
     ELSE s[i]]

\* normalizeWikiTarget
normalizeWikiTarget(raw) == trim(Head(split(raw, Chr("#"))))

\* The inline rule of obsidianLinksPlugin on one piece: the token of a
\* link or an embed, or the text the piece stays when inner is blank. An
\* alias that is not written and an empty alias are both <<>>: the
\* renderers treat them alike.
TextToken(content) == [type |-> "text", content |-> content, meta |-> <<>>]

wikilinkToken(piece) ==
  LET inner == trim(piece.content)
      parts == split(inner, Chr("|"))
      rawAlias == IF Len(parts) >= 2 THEN parts[2] ELSE <<>>
  IN IF inner = <<>>
     THEN TextToken(<<Chr(IF piece.type = "embed" THEN "![[" ELSE "[[")>>
                      \o piece.content \o <<Chr("]]")>>)
     ELSE [type |-> IF piece.type = "embed" THEN "obsidian_embed"
                    ELSE "obsidian_wikilink",
           content |-> <<>>,
           meta |-> [target |-> normalizeWikiTarget(trim(parts[1])),
                     alias |-> trim(rawAlias)]]

\* MarkdownIt.parse, the inline children of the paragraph.
parseInline(markdown) ==
  [i \in 1..Len(markdown) |->
     IF markdown[i].type = "text" THEN TextToken(markdown[i].content)
     ELSE wikilinkToken(markdown[i])]

\* confluencePageLink
confluencePageLink(spaceKey, pageTitle, bodyText) ==
  <<OpenTag("ac:link", <<>>),
    OpenTag("ri:page", <<Attr("ri:space-key", spaceKey),
                         Attr("ri:content-title", pageTitle)>>),
    OpenTag("ac:plain-text-link-body", <<>>), Chr("<![CDATA[")>>
    \o bodyText
    \o <<Chr("]]>"), CloseTag("ac:plain-text-link-body"),
         CloseTag("ac:link")>>

renderWikilinkTarget(meta, context) == escapeXml(meta.target)

\* renderInline, the cases obsidian_wikilink and obsidian_embed.
renderWikilink(meta, context) ==
  LET target == normalizeWikiTarget(meta.target)
      alias == IF trim(meta.alias) # <<>> THEN trim(meta.alias) ELSE target
      resolved == context.resolveWikiLink
  IN IF resolved # Null
     THEN confluencePageLink(context.spaceKey, resolved[1], alias)
     ELSE escapeXml(alias)

renderEmbed(meta, context) ==
  LET target == normalizeWikiTarget(meta.target)
      alias == IF trim(meta.alias) # <<>> THEN trim(meta.alias) ELSE target
      resolved == context.resolveWikiLink
  IN IF resolved # Null
     THEN <<OpenTag("ac:image", <<>>),
            OpenTag("ri:attachment", <<Attr("ri:filename", resolved[1])>>),
            CloseTag("ac:image")>>
     ELSE escapeXml(alias)

\* renderInline
RECURSIVE renderInline(_, _)
renderInline(tokens, context) ==
  IF tokens = <<>> THEN <<>>
  ELSE LET t == Head(tokens)
           out == IF t.type = "text" THEN escapeXml(t.content)
                  ELSE IF t.type = "obsidian_embed"
                  THEN renderEmbed(t.meta, context)
                  ELSE renderWikilink(t.meta, context)
       IN out \o renderInline(Tail(tokens), context)

\* ConfluenceStorageConverter.convert: renderBlock over paragraph_open,
\* inline, paragraph_close. No step of it throws.
convert(markdown, context) ==
  [threw |-> FALSE,
   storage |-> IF markdown = <<>> THEN <<>>
               ELSE <<OpenTag("p", <<>>)>>
                      \o renderInline(parseInline(markdown), context)
                      \o <<CloseTag("p")>>]

\* The most characters between the brackets of a link.
MaxInnerLen == 3

InnerChars == {Chr("n"), Chr("m"), Chr("|"), Chr("#"), Chr(" "), Chr("&")}

\* The source texts: a link or an embed, alone or after a piece of text.
LinkPieces ==
  [type : {"wikilink", "embed"}, content : TextsOver(InnerChars, MaxInnerLen)]

SourceTexts ==
  {<<l>> : l \in LinkPieces}
    \cup {<<[type |-> "text", content |-> Chars(<<"a", "&", " ">>)], l>> :
            l \in LinkPieces}

\* The arguments of convert: the source text, and the context, whose
\* resolver answers null or a title.
ConvertCalls ==
  [markdown : SourceTexts,
   ctx : [spaceKey : {"KEY"}, resolveWikiLink : {Null, <<"Title">>}]]

\* A call of ConfluenceStorageConverter.convert.
Convert ==
  /\ pc = "call"
  /\ output' = convert(input.markdown, input.ctx)
  /\ pc' = "converted"
  /\ UNCHANGED input
  /\ callUnchanged

InitConvert == InitCall(ConvertCalls)

NextConvert == Convert

SpecConvert == InitConvert /\ [][NextConvert]_vars

\* ------------------------------------------------- hierarchy properties

Pos(s, x) == CHOOSE i \in 1..Len(s) : s[i] = x

\* Following parentOf from p reaches Null in at most k steps.
RECURSIVE reachesNull(_, _, _)
reachesNull(p, parent, k) ==
  IF p = Null THEN TRUE
  ELSE IF k = 0 \/ p \notin DOMAIN parent THEN FALSE
  ELSE reachesNull(parent[p], parent, k - 1)

\* The candidate parents the mode's rule gives before post-processing.
Candidates ==
  candidateParents(root, files, hierarchyMode, links, frontmatter)

\* C7: in every mode and for every input, cyclic ones included, following
\* parentOf from any document of the export set reaches null within
\* |exportSet| steps.
Thm_C7_Acyclic ==
  pc = "ordered" =>
    \A d \in Range(files) : reachesNull(d, parentByPath, Len(files))

\* A hierarchy was built from candidate parents that form a cycle of three
\* documents.
Wit_C7_Cycle ==
  /\ pc = "ordered"
  /\ \E a, b, c \in Range(files) \ {root} :
       /\ a # b /\ b # c /\ a # c
       /\ Candidates[a] = b /\ Candidates[b] = c /\ Candidates[c] = a

\* C8: in every mode parentOf[root] is null and every non-root document of
\* the export set has a parent that is a member of the export set.
Thm_C8_ParentInSet ==
  pc = "ordered" =>
    /\ parentByPath[root] = Null
    /\ \A d \in Range(files) \ {root} :
         parentByPath[d] # Null /\ parentByPath[d] \in Range(files)

\* A hierarchy was built for a document whose first link leaves the export
\* set and whose second link stays in it.
Wit_C8_LinkOutside ==
  /\ pc = "ordered"
  /\ hierarchyMode = "links"
  /\ \E d \in Range(files) \ {root} :
       /\ Len(links[d]) >= 2
       /\ links[d][1] \notin Range(files)
       /\ links[d][2] \in Range(files) \ {root, d}
       /\ parentByPath[d] = links[d][2]

\* C9: in mode links with policy firstSeen, when A and B both link to C and
\* the traversal visits A before B, parentOf[C] is A.
CX_C9_FirstLinker ==
  (pc = "ordered" /\ hierarchyMode = "links" /\ policy = "firstSeen") =>
    \A a, b, c \in Range(files) \ {root} :
      ( /\ a # b /\ a # c /\ b # c
        /\ c \in Range(links[a]) /\ c \in Range(links[b])
        /\ Pos(files, a) < Pos(files, b) )
      => parentByPath[c] = a

\* The nearest index or eponymous folder document of the export set other
\* than the document itself, searching upward from `parts`.
RECURSIVE nearestFolderNote(_, _, _)
nearestFolderNote(parts, f, fileSet) ==
  IF Len(parts) = 0 THEN Null
  ELSE LET indexNote == Append(parts, "index")
           folderNote == Append(parts, parts[Len(parts)])
       IN IF indexNote \in fileSet \ {f} THEN indexNote
          ELSE IF folderNote \in fileSet \ {f} THEN folderNote
          ELSE nearestFolderNote(SubSeq(parts, 1, Len(parts) - 1), f, fileSet)

\* C10: in folder mode every non-root document's parent is the nearest index
\* or eponymous folder document of the export set found by searching upward
\* through its ancestor directories, and is root only if there is none.
CX_C10_FolderParent ==
  (pc = "ordered" /\ hierarchyMode = "folder") =>
    \A d \in Range(files) \ {root} :
      parentByPath[d] =
        OrElse(nearestFolderNote(SubSeq(d, 1, Len(d) - 1), d, Range(files)),
               root)

\* The number of parent steps from p up to a document without parent, at
\* most k.
RECURSIVE depthOf(_, _, _)
depthOf(p, parent, k) ==
  IF k = 0 \/ p \notin DOMAIN parent \/ parent[p] = Null THEN 0
  ELSE 1 + depthOf(parent[p], parent, k - 1)

\* The documents of the export set a document links to, itself excluded.
linkCandidates(f) == (Range(links[f]) \cap Range(files)) \ {f}

\* C11: the tie-break policy decides among several candidate parents.  Under
\* closestToRoot no linked candidate is closer to the root than the chosen
\* parent; under preferFolderIndex a document that has a folder index
\* candidate gets it rather than a linked one (the root stands in where a
\* cycle was broken).
CX_C11_PolicyDecides ==
  (pc = "ordered" /\ hierarchyMode \in {"links", "hybrid"}) =>
    \A f \in Range(files) \ {root} :
      /\ policy = "closestToRoot" /\ hierarchyMode = "links" =>
           \A c \in linkCandidates(f) :
              \/ parentByPath[f] = root
              \/ depthOf(parentByPath[f], parentByPath, Len(files))
                   <= depthOf(c, parentByPath, Len(files))
      /\ ( /\ policy = "preferFolderIndex"
           /\ nearestFolderNote(SubSeq(f, 1, Len(f) - 1), f, Range(files))
                # Null )
         => parentByPath[f] \in
              {nearestFolderNote(SubSeq(f, 1, Len(f) - 1), f, Range(files)),
               root}

\* ---------------------------------------------------- export properties

\* The page ids above id in the page tree of the space.
RECURSIVE ancestors(_, _)
ancestors(pages, id) ==
  IF id \notin DOMAIN pages \/ pages[id].parent = NoPage THEN {}
  ELSE {pages[id].parent} \cup ancestors(pages, pages[id].parent)

\* C1: an error raised while a document is processed in pass 1 or pass 2
\* abandons that document only: the run does not abort, and when the run
\* has finished every document of the order was processed or raised.
CX_C1_ErrorIsolated ==
  /\ pc # "failed"
  /\ pc = "done" => Range(ordered) \subseteq done1 \cup threw

\* C2: in dry-run mode no remote write of any kind is issued (no page is
\* created or updated, no label added or removed, no attachment uploaded)
\* and pass 2 is not executed.
CX_C2_DryRunWritesNothing ==
  settings.dryRun => /\ writes = {}
                     /\ pc # "pass2"
                     /\ done2 = {}

\* C3: the export of a confirmed review creates or updates pages only for
\* the documents whose item was selected with an effective action other than
\* skip and conflict; no other document, the root included, is written.
CX_C3_OnlySelectedWritten ==
  ~selectedPaths.all =>
     \A w \in writes : w.kind \in PageWrites => w.doc \in selectedPaths.paths

\* C4: an unmapped document whose title is carried by a page outside the
\* intended parent scope is planned as a conflict, and the export does not
\* update that page through the title.  (No action of the modal lets the
\* user choose otherwise for an item that is not a conflict.)
CX_C4_TitleMatchIsConflict ==
  /\ pc = "review" =>
       \A d \in DOMAIN plan :
          ( /\ saved[d] = NoPage
            /\ settings.updateExisting
            /\ planCtx.parentPageId # NoPage
            /\ searchPageByTitle(remote, basename(d)) # {}
            /\ \A p \in searchPageByTitle(remote, basename(d)) :
                  planCtx.parentPageId \notin ancestors(remote, p) )
          => plan[d].action = "conflict"
  /\ \A w \in writes :
        ( /\ w.via = "title"
          /\ ctx.parentPageId # NoPage )
        => ctx.parentPageId \in ancestors(remote, w.page)

\* C5: when pass 1 comes to a non-root document, its hierarchy parent has
\* been processed in this pass and the mapping holds the parent's entry,
\* which is where the document's remote parent id is looked up.
Thm_C5_ParentBeforeChild ==
  (pc = "pass1" /\ ordered[idx] # root) =>
     /\ parentByPath[ordered[idx]] \in done1
     /\ mapping[parentByPath[ordered[idx]]] # NoPage

\* Pass 1 is about to process docs/guide/install under docs/guide/guide,
\* whose page it has just created.
Wit_C5_GrandchildNext ==
  /\ pc = "pass1"
  /\ ordered[idx] = P_install
  /\ parentByPath[P_install] = P_guide
  /\ P_guide \in done1
  /\ saved[P_guide] = NoPage
  /\ mapping[P_guide] # NoPage

\* C6: every document that pass 2 processes has a hierarchy parent that
\* pass 1 processed successfully before.
Thm_C6_Pass2AfterParentPass1 ==
  \A d \in done2 \cup (IF pc = "pass2" THEN {ordered[idx]} ELSE {}) :
     d # root => parentByPath[d] \in done1

\* Pass 2 has processed docs/guide/install, a child of docs/guide/guide,
\* in a run in which an operation failed and was swallowed.
Wit_C6_ChildInPass2 ==
  /\ P_install \in done2
  /\ parentByPath[P_install] = P_guide
  /\ faults > 0

\* ------------------------------------------------------ plan properties

\* A step in which the plan builder returns the items the modal shows.
PlanBuilt == OpenReview \/ RebuildPlan

\* C12: a document that has a mapping entry whose page is gone (404) gets
\* from the plan builder an item with action recreate, selected, that keeps
\* the stale page id.
Thm_C12_RecreateOn404 ==
  [][PlanBuilt =>
       \A d \in DOMAIN plan' :
          (saved[d] # NoPage /\ saved[d] \notin DOMAIN remote) =>
             /\ plan'[d].action = "recreate"
             /\ plan'[d].selected
             /\ plan'[d].pageId = saved[d]]_vars

\* The modal shows the plan of a document whose mapped page was deleted.
Wit_C12_DeletedPagePlanned ==
  /\ pc = "review"
  /\ \E d \in DOMAIN plan :
       /\ saved[d] # NoPage
       /\ saved[d] \notin DOMAIN remote
       /\ plan[d].action = "recreate"
       /\ plan[d].pageId = saved[d]

\* The page the plan builder compares document d with: the mapped page, or
\* for an unmapped document the page its title finds; NoPage when there is
\* none to compare with.
comparedPage(d) ==
  IF saved[d] # NoPage
  THEN IF saved[d] \in DOMAIN remote THEN saved[d] ELSE NoPage
  ELSE IF settings.updateExisting
  THEN CHOOSE id \in searchAnswers(basename(d)) : TRUE
  ELSE NoPage

\* The baseline of the body of d: the storage snapshot, else the page body.
baselineBody(d, id) ==
  IF snapshots[d].storage # "none" THEN snapshots[d].storage
  ELSE remote[id].body

unchangedSince(d, id) ==
  /\ baselineBody(d, id) = "cur"
  /\ remote[id].title = basename(d)
  /\ remote[id].labels = desiredLabels(d)

\* C13: when the plan is built and every remote read succeeds, a document
\* whose body, title and label set are all unchanged against the baseline
\* gets the action skip and is not selected; a document of which any of
\* the three differs gets the action update.
Thm_C13_SkipIffUnchanged ==
  [][PlanBuilt /\ faults' = faults =>
       \A d \in DOMAIN plan' :
          comparedPage(d) # NoPage =>
             IF unchangedSince(d, comparedPage(d))
             THEN plan'[d].action = "skip" /\ ~plan'[d].selected
             ELSE plan'[d].action = "update"]_vars

Wit_C13_SkipAndLabelUpdate ==
  /\ pc = "review" /\ faults = 0
  /\ \E d, e \in DOMAIN plan :
       /\ comparedPage(d) # NoPage /\ unchangedSince(d, comparedPage(d))
       /\ plan[d].action = "skip"
       /\ comparedPage(e) # NoPage
       /\ baselineBody(e, comparedPage(e)) = "cur"
       /\ remote[comparedPage(e)].title = basename(e)
       /\ remote[comparedPage(e)].labels # desiredLabels(e)
       /\ plan[e].action = "update"
\* C14: when the plan is built and a remote read made to verify a document
\* (the fetch of its page, the title search, the read of the page's labels)
\* fails with an error other than 404, the item of that document is skip
\* and not selected.
CX_C14_FailedReadIsSkip ==
  [][PlanBuilt =>
       \A p \in rebuiltPlans :
          (p.faulted /\ plan' = p.items) =>
             /\ plan'[p.doc].action = "skip"
             /\ ~plan'[p.doc].selected]_vars
\* C15: every item the plan builder returns is selected exactly when its
\* action is create, update or recreate, and is not selected when its
\* action is skip or conflict.
Thm_C15_SelectedIffActionable ==
  [][PlanBuilt =>
       \A d \in DOMAIN plan' :
          /\ plan'[d].action \in
                {"create", "update", "recreate", "skip", "conflict"}
          /\ plan'[d].overrideAction = NoAction
          /\ plan'[d].selected <=>
                plan'[d].action \in {"create", "update", "recreate"}]_vars

Wit_C15_SkipBesideCreate ==
  /\ pc = "review"
  /\ \E d, e \in DOMAIN plan :
       /\ plan[d].action = "skip" /\ ~plan[d].selected
       /\ plan[d].overrideAction = NoAction
       /\ plan[e].action = "create" /\ plan[e].selected
\* C16: an update item driven by a label delta alone, whose label toggle
\* was turned off, is a skip: the confirmed export writes neither the body
\* and title nor the labels of that document's page.
CX_C16_LabelToggleOffUntouched ==
  \A d \in labelsOff :
     \A w \in writes :
        w.page = earlierPage(d) =>
           w.kind \notin PageWrites \cup {"addLabels", "removeLabels"}
C18_step ==
  (Pass1Step /\ faults' = faults) =>
     LET f == ordered[idx]
     IN (mapping[f] # NoPage /\ mapping[f] \notin DOMAIN remote) =>
           /\ f \in done1'
           /\ mapping'[f] \in DOMAIN remote' \ DOMAIN remote
           /\ Write("createPage", mapping'[f], f, 1) \in writes'

C18_end ==
  pc' = "done" => \A d \in Range(ordered') : saved'[d] \in DOMAIN remote'

CX_C18_DeletedPageRecreated == [][C18_step /\ C18_end]_vars
\* C19: when pass 2 finds the page of a document missing, the entry of the
\* document is removed and the step returns normally, so that the loop goes
\* on with the next document; and the pass 1 of a later run that comes to
\* the document and meets no failure creates a new page for it.
C19_drop ==
  Pass2Step =>
     LET f == ordered[idx]
     IN (mapping[f] # NoPage /\ mapping[f] \notin DOMAIN remote') =>
           /\ mapping'[f] = NoPage
           /\ f \in done2' /\ f \notin threw'
           /\ pc' # "failed"
           /\ idx < Len(ordered) => (pc' = "pass2" /\ idx' = idx + 1)
           /\ idx = Len(ordered) => (pc' = "done" /\ saved'[f] = NoPage)

C19_recreate ==
  (Pass1Step /\ faults' = faults) =>
     LET f == ordered[idx]
     IN f \in dropped =>
           /\ mapping'[f] \in DOMAIN remote' \ DOMAIN remote
           /\ Write("createPage", mapping'[f], f, 1) \in writes'

Thm_C20_SnapshotsAfterPublish ==
  [][\A d \in Vault :
        snapshots'[d] # snapshots[d] =>
           /\ d \notin threw'
           /\ mapping'[d] \in DOMAIN remote'
           /\ \E w \in writes' :
                 /\ w.doc = d /\ w.kind \in PageWrites
                 /\ w.page = mapping'[d]
           /\ \A k \in {"md", "storage"} :
                 snapshots'[d][k] # snapshots[d][k] =>
                    snapshots'[d][k] = remote'[mapping'[d]].body]_vars

Wit_C20_FailedKeepsSnapshots ==
  /\ pc = "failed"
  /\ \E d \in threw, e \in done1 :
       /\ snapshots[d] = [md |-> "old", storage |-> "old"]
       /\ \A w \in writes : w.doc # d
       /\ snapshots[e] = [md |-> "cur", storage |-> "cur"]
       /\ \E w \in writes : w.doc = e /\ w.kind \in PageWrites

\* ------------------------------------------------ normaliser properties
\* C21: normalising a normalised storage text changes nothing,
\* normalize(normalize(x)) = normalize(x).
CX_C21_NormaliseIdempotent ==
  pc = "normalised" => normaliseStorage(output) = output

\* The texts that differ from text in one of the ways the normaliser is to
\* hide. The attributes of one tag in another order, sortable says of
\* which tags:
orderings(a) ==
  {b \in [1..Len(a) -> Range(a)] : Range(b) = Range(a)}

reordered(text, sortable) ==
  UNION {{[text EXCEPT ![i].attrs = b] : b \in orderings(text[i].attrs)} :
           i \in {k \in 1..Len(text) : text[k].kind = "open"
                                         /\ text[k].name \in sortable}}

\* a run of spaces or of line feeds one longer, a space or a line feed
\* between two tags, around the text:
insertAt(s, i, t) == SubSeq(s, 1, i) \o <<t>> \o SubSeq(s, i + 1, Len(s))

respaced(text) ==
  {insertAt(text, i, text[i]) :
     i \in {k \in 1..Len(text) : isWhitespace(text[k])}}
    \cup {insertAt(text, i, w) :
            i \in {k \in 1..Len(text) - 1 : isTag(text[k])
                                              /\ isTag(text[k + 1])},
            w \in {Space, LineFeed}}
    \cup {<<w>> \o text : w \in {Space, LineFeed}}
    \cup {Append(text, w) : w \in {Space, LineFeed}}

\* a volatile attribute more in one tag, with any value:
withVolatile(text) ==
  UNION {{[text EXCEPT ![i].attrs =
              insertAt(@, k, Attr(VolatileAttributes[n], v))] :
            k \in 0..Len(text[i].attrs), n \in 1..Len(VolatileAttributes),
            v \in {"2"}} :
           i \in {j \in 1..Len(text) : text[j].kind = "open"}}

C22_sameAs(texts) ==
  pc = "normalised"
    => \A other \in texts : normaliseStorage(other) = output

AllTags == {"ac:link", "span", "p"}

\* C22: two storage texts that differ only in the order of attributes, in
\* whitespace, or in the presence or value of a volatile attribute
\* normalise to the same value.
CX_C22_SameUnderAnyAttributeOrder ==
  C22_sameAs(reordered(input, AllTags) \cup respaced(input)
               \cup withVolatile(input))

\* C22, as the code has it: the attribute order is hidden for the tags
\* sortAttributesForKnownTags lists (ac:structured-macro, ac:parameter,
\* ac:link, ac:image, ri:page, ri:attachment, ri:url); whitespace and
\* volatile attributes are hidden everywhere.
Thm_C22_SameUnderKnownTagOrder ==
  C22_sameAs(reordered(input, tagNames) \cup respaced(input)
               \cup withVolatile(input))

Wit_C22_AttributesSorted ==
  /\ pc = "normalised"
  /\ input = <<OpenTag("p", <<>>),
               OpenTag("ac:link", <<Attr("ac:tooltip", "1"),
                                    Attr("ac:anchor", "1")>>)>>
  /\ output = <<OpenTag("p", <<>>),
                OpenTag("ac:link", <<Attr("ac:anchor", "1"),
                                     Attr("ac:tooltip", "1")>>)>>


\* ---------------------------------------------------- client properties
\* The credential of the chosen authentication mode is not filled in.
missingAuthentication(cfg) ==
  \/ cfg.authMode = "bearer" /\ cfg.bearerToken = ""
  \/ cfg.authMode = "basic" /\ (cfg.username = "" \/ cfg.passwordOrToken = "")

\* C23: when a required authentication field is missing the operation
\* fails with a configuration error before any network request is issued.
CX_C23_ConfigErrorBeforeRequest ==
  pc = "answered" /\ missingAuthentication(input)
    => output.requests = <<>> /\ output.error = "configuration"


\* ------------------------------------------------- converter properties
\* The link of the source text, as written between its brackets, and the
\* text before it.
writtenLink(markdown) == trim(markdown[Len(markdown)].content)
textBefore(markdown) ==
  IF Len(markdown) = 2 THEN markdown[1].content ELSE <<>>

\* The plain alias text of a link: what is written after the first bar, up
\* to the next one, or else the target, which ends at a #.
aliasText(inner) ==
  LET parts == split(inner, Chr("|"))
      alias == IF Len(parts) >= 2 THEN trim(parts[2]) ELSE <<>>
      hash == {i \in 1..Len(parts[1]) : parts[1][i] = Chr("#")}
      target == IF hash = {} THEN parts[1]
                ELSE SubSeq(parts[1], 1,
                            (CHOOSE i \in hash : \A j \in hash : i <= j) - 1)
  IN IF alias # <<>> THEN alias ELSE trim(target)

mappedToExistingPage(d) == mapping[d] # NoPage /\ mapping[d] \in DOMAIN remote

C25_step ==
  Pass1Step /\ mappedToExistingPage(ordered[idx])
    => \A w \in writes' \ writes : w.kind # "createPage"

\* C25: a document that has an entry whose remote page still exists is
\* never published by creating a new page, whatever the update-existing
\* setting is.
CX_C25_MappedNeverCreated == [][C25_step]_vars


\* C26: at every point of a run no two documents of the identity map refer
\* to the same remote page; two exported documents of one base name in two
\* folders are never bound to one page by the title search.
CX_C26_OnePagePerDocument ==
  \A d, e \in DOMAIN mapping :
    d # e /\ mapping[d] # NoPage => mapping[d] # mapping[e]


\* The run has ended on an error of pass 1: a document of the run has not
\* completed its pass-1 step.
abortedInPass1 == pc = "failed" /\ Range(ordered) \ done1 # {}

\* C27: when an export run aborts during pass 1, every remote page the run
\* has created has a persisted entry in the identity map.
CX_C27_CreatedPagesPersisted ==
  abortedInPass1
    => \A w \in writes : w.kind = "createPage" => saved[w.doc] = w.page


\* C28: a rename notification handled while an export run is suspended
\* does not discard the entries the run has set and not yet saved: when
\* the run completes, every document it published (and whose page pass 2
\* has not found deleted) has a persisted entry.
CX_C28_RenameKeepsUnsavedEntries ==
  pc = "done" => \A d \in done1 \ dropped : saved[d] # NoPage


\* ----------------------------------------------- re-export properties
C29_rebuilt ==
  OpenReviewAfterExport /\ faults' = 0
    => \A d \in done1 \cap done2 : plan'[d].action = "skip"

\* C29: right after a successful export of a document, nothing having
\* changed locally or remotely, the rebuilt plan classifies the document
\* as skip, also when the page carries labels the document does not
\* declare and the label sync mode is add-only.
CX_C29_SkipAfterExport == [][C29_rebuilt]_vars


\* ------------------------------------------- redundant-write properties
\* The page mapped to document d holds what the document renders to now:
\* the body last published, also kept as the storage snapshot, and the title.
publishedAsRendered(d) ==
  /\ mapping[d] \in DOMAIN remote
  /\ remote[mapping[d]].body = "cur"
  /\ remote[mapping[d]].title = basename(d)
  /\ snapshots[d].storage \in {"none", "cur"}

C30_step ==
  \A d \in Vault :
    mapping[d] # NoPage /\ publishedAsRendered(d)
      => \A w \in writes' \ writes : ~(w.kind = "updatePage" /\ w.doc = d)

\* C30: an export run over a mapped document whose rendered content and
\* title equal what was last published issues no update of its page, in
\* pass 1 or in pass 2.
CX_C30_NoRedundantUpdate == [][C30_step]_vars


\* --------------------------------------------- hierarchy preview properties
\* buildExportPlan, intendedParentFilePath: the parent the plan shows for
\* document d, from the hierarchy of the whole export set in the context
\* the plan was built for.
intendedParentFilePath(d) ==
  buildHierarchy(root, files, planCtx.hierarchyMode,
                 planCtx.hierarchyManyToManyPolicy, links, frontmatter)[d]

C31_step ==
  \A w \in writes' \ writes :
    LET p == intendedParentFilePath(w.doc)
    IN /\ w.kind = "createPage"
       /\ ~selectedPaths.all
       /\ ctx = planCtx
       /\ w.doc # root
       /\ mapping[p] # NoPage
       => remote'[w.page].parent = mapping[p]

\* C31: the page of a document published from a reviewed plan is created
\* under the page of the parent that the plan's hierarchy preview shows for
\* the document, whichever items were deselected before confirming.
CX_C31_CreatedUnderPreviewedParent == [][C31_step]_vars


\* ------------------------------------------ peripheral failure properties
\* The failures of the label sync, of the attachment upload and of the two
\* snapshot writes.
PeripheralFaults ==
  {"getLabels", "uploadAttachment", "writeSnapshot", "writeStorageSnapshot"}

\* What the step of the run at ordered[idx] returns when the operation
\* fault fails in it.
stepResult(fault, found) ==
  LET f == ordered[idx]
  IN IF pc = "pass1"
     THEN ensurePageForFile(settings, env, f,
                            parentIdOverride(settings, f, root, hierarchyMode,
                                             parentByPath, mapping),
                            fault, found)
     ELSE updatePageContentWithLinks(settings, env, f, fault)

\* The step taken is the step in which the operation fault failed.
stepMet(fault, found) ==
  LET r == stepResult(fault, found)
  IN /\ r.faulted
     /\ faults' = faults + 1
     /\ mapping' = r.mapping /\ remote' = r.remote
     /\ snapshots' = r.snapshots /\ writes' = r.writes
     /\ threw' = IF r.threw THEN threw \cup {ordered[idx]} ELSE threw

C32_step ==
  pc \in {"pass1", "pass2"} /\ faults < MaxFaults =>
    \A fault \in PeripheralFaults :
      \A found \in searchAnswers(basename(ordered[idx])) :
        stepMet(fault, found) =>
          LET f == ordered[idx]
          IN /\ f \notin threw'
             /\ pc' # "failed"
             /\ idx < Len(ordered) => idx' = idx + 1 /\ pc' = pc
             /\ mapping'[f] \in DOMAIN remote'
             /\ remote'[mapping'[f]].body = "cur"
             /\ remote'[mapping'[f]].title = basename(f)
             /\ pc = "pass1" =>
                  /\ f \in done1'
                  /\ \E w \in writes' \ writes :
                       /\ w.kind \in PageWrites /\ w.doc = f
                       /\ w.page = mapping'[f]
             /\ pc = "pass2" => f \in done2' /\ mapping'[f] = mapping[f]

\* C32: a step of the run in which the label sync, the attachment upload or
\* a snapshot write fails still writes the page of its document and records
\* the entry of the document, raises no error, and the run goes on to the
\* next document.
Thm_C32_PeripheralFailuresAreSoft == [][C32_step]_vars

\* A snapshot write failed for the first document of a run: its page is
\* created and mapped, and pass 1 is at the second document.
Wit_C32_SnapshotWriteFailed ==
  /\ pc = "pass1" /\ idx = 2 /\ faults = 1 /\ threw = {}
  /\ snapshots[ordered[1]].md = "none"
  /\ snapshots[ordered[1]].storage = "cur"
  /\ mapping[ordered[1]] \in DOMAIN remote
  /\ Write("createPage", mapping[ordered[1]], ordered[1], 1) \in writes


\* -------------------------------------------------- snapshot properties
\* C33: after a run, also one in which a snapshot write failed, the source
\* snapshot and the storage snapshot of every document are of the same
\* publish: both of the last one, or both as they were before the run.
CX_C33_SnapshotsInStep ==
  pc \in {"done", "failed"} =>
    \A d \in Range(files) : snapshots[d].md = snapshots[d].storage


\* ------------------------------------------------------ pass-2 properties
\* Pass 2 issues an update of the page of document d in this step.
updatedInPass2(d) ==
  \E w \in writes' \ writes : w.kind = "updatePage" /\ w.doc = d /\ w.pass = 2

C34_step ==
  Pass2Step /\ faults' = faults /\ mapping[ordered[idx]] \in DOMAIN remote
    => LET f == ordered[idx]
           id == mapping[f]
       IN updatedInPass2(f) <=>
            \/ baselineBody(f, id) # "cur"
            \/ remote[id].title # basename(f)

\* C34: a pass-2 step in which nothing fails issues an update of the page
\* of its document if and only if the rendered storage differs from the
\* baseline (the storage snapshot, else the storage of the page) or the
\* title of the document differs from the title of the page.
Thm_C34_Pass2UpdatesIffChanged == [][C34_step]_vars

\* Pass 2 has updated a page whose storage snapshot was of the rendered
\* storage, because its title had been changed.
Wit_C34_UpdatedForTitle ==
  /\ pc = "done" /\ threw = {}
  /\ \E w \in writes :
       /\ w.kind = "updatePage" /\ w.pass = 2
       /\ Write("createPage", w.page, w.doc, 1) \in writes
       /\ remote[w.page].title = basename(w.doc)


\* -------------------------------------------------- label toggle properties
\* C35: an item that is exported for its content or title, with its
\* "Apply label changes" toggle turned off: the run adds no label to the
\* page of the document and removes none.
CX_C35_ToggleOffKeepsLabels ==
  \A d \in unlabelled :
     \A w \in writes :
        w.doc = d => w.kind \notin {"addLabels", "removeLabels"}


\* ------------------------------------------------- plugin data properties
\* C36: once the settings save and the identity-map save have both
\* completed, in whatever order their reads and writes of the plugin data
\* were interleaved, the plugin data holds the settings and the identity
\* map that are in memory.
CX_C36_NoLostUpdate ==
  DOMAIN loaded = {} => savedSettings = settings /\ saved = mapping


\* ------------------------------------------------ cycle-breaking properties
\* The DFS of resolveManyToMany along the parent edges, in which the edge
\* that closes a cycle is the one rewritten: the DFS arrives at n over the
\* parent edge of the node from, and when n is still being visited that
\* edge is sent to root.
RECURSIVE dfsClosingEdge(_, _, _, _)
dfsClosingEdge(n, from, st, rootPath) ==
  IF n \in st.visited THEN st
  ELSE IF n \in st.visiting THEN [st EXCEPT !.parent[from] = rootPath]
  ELSE LET st1 == [st EXCEPT !.visiting = @ \cup {n}]
           p == IF n \in DOMAIN st1.parent THEN st1.parent[n] ELSE Null
           st2 == IF p # Null THEN dfsClosingEdge(p, n, st1, rootPath)
                  ELSE st1
       IN [st2 EXCEPT !.visiting = @ \ {n}, !.visited = @ \cup {n}]

RECURSIVE dfsClosingEdgeAll(_, _, _, _)
dfsClosingEdgeAll(fs, i, st, rootPath) ==
  IF i > Len(fs) THEN st
  ELSE dfsClosingEdgeAll(fs, i + 1,
                         dfsClosingEdge(fs[i], fs[i], st, rootPath), rootPath)

\* The candidate parents with every closing edge rewritten and every other
\* edge kept.
closingEdgesRewritten ==
  LET p == breakSelfParent(defaultToRoot(Candidates, root), root)
  IN dfsClosingEdgeAll(files, 1,
                       [parent |-> p, visiting |-> {}, visited |-> {}],
                       root).parent

\* C37: of the parent candidates of a cycle, the hierarchy rewrites to root
\* exactly the edge that closes the cycle during the DFS, the edge that
\* leads back to a node still being visited, and keeps every other edge.
CX_C37_ClosingEdgeRewritten ==
  pc = "ordered" /\ hierarchyMode # "flat"
    => parentByPath = closingEdgesRewritten


\* ------------------------------------------------------ ordering properties
\* Document a is above document x in the hierarchy, at most k edges up.
RECURSIVE isAbove(_, _, _)
isAbove(a, x, k) ==
  /\ x \in DOMAIN parentByPath
  /\ parentByPath[x] # Null
  /\ \/ parentByPath[x] = a
     \/ k > 0 /\ isAbove(a, parentByPath[x], k - 1)

\* s is the DFS pre-order of the hierarchy from root, the children of a
\* document in path order: s lists every document once, root first; the
\* documents from a parent to any of its children are all below the parent;
\* of two children of one parent, the one with the lesser path comes first.
isPreOrder(s) ==
  /\ Len(s) = Len(files) /\ Range(s) = Range(files)
  /\ s[1] = root
  /\ \A i \in 2..Len(s) :
       LET p == parentByPath[s[i]]
       IN /\ p \in Range(s) /\ Pos(s, p) < i
          /\ \A k \in (Pos(s, p) + 1)..i : isAbove(p, s[k], Len(s))
  /\ \A i, j \in 2..Len(s) :
       /\ parentByPath[s[i]] = parentByPath[s[j]]
       /\ localeCompareLess(s[i], s[j])
       => i < j

\* C38: the processing order of an export set, which both passes iterate,
\* is the DFS pre-order from root with the children of each document in
\* lexicographic path order: it is fixed by the root, the export set and
\* the parents alone.
Thm_C38_OrderIsPreOrder == pc = "ordered" => isPreOrder(ordered)

\* An order in which the child of the first of two siblings comes before
\* the second sibling, whose path is the lesser of the two.
Wit_C38_ChildBeforeSibling ==
  /\ pc = "ordered"
  /\ \E a, b, c \in Range(files) \ {root} :
       /\ parentByPath[a] = root /\ parentByPath[b] = root
       /\ parentByPath[c] = a
       /\ localeCompareLess(a, b) /\ localeCompareLess(b, c)
       /\ Pos(ordered, c) < Pos(ordered, b)

\* C39: pass 1 saves the identity map after every fifth document and once
\* after the last: a pass over n documents makes at most n \div 5 + 1 saves,
\* and while it runs fewer than five processed documents have an entry in
\* memory that differs from the saved one.
unpersisted == {d \in done1 : mapping[d] # saved[d]}

Thm_C39_SavesEveryFifth ==
  pc \in {"pass1", "pass2", "done", "failed"} =>
    /\ saves <= (Len(ordered) \div SaveEvery) + 1
    /\ pc = "pass1" =>
         /\ saves = (idx - 1) \div SaveEvery
         /\ Cardinality(unpersisted) < SaveEvery
    /\ pc \in {"pass2", "done"} => saves = (Len(ordered) \div SaveEvery) + 1

Wit_C39_FifthSaved ==
  /\ pc = "pass1"
  /\ idx = SaveEvery + 1
  /\ saves = 1
  /\ unpersisted = {}
  /\ \A i \in 1..SaveEvery : saved[ordered[i]] # NoPage

Wit_C39_FourUnsaved ==
  /\ pc = "pass1"
  /\ idx = SaveEvery
  /\ saves = 0
  /\ Cardinality(unpersisted) = SaveEvery - 1

\* C40: whatever the user does in the review modal (checkboxes, bulk
\* buttons, label toggles), every selected item has the effective action
\* create, update or recreate, and "Export selected" hands over exactly the
\* selected items.  (The conflict dropdown is rendered for a conflict item
\* only, and buildExportPlan of planBuilder.ts returns none.)
Actionable == {"create", "update", "recreate"}

C40_step ==
  /\ pc' = "review" =>
       \A d \in DOMAIN plan' :
          plan'[d].selected => effectiveAction(plan'[d]) \in Actionable
  /\ Confirm =>
       /\ selectedPaths'.paths = {d \in DOMAIN plan : plan[d].selected}
       /\ \A d \in selectedPaths'.paths :
             effectiveAction(plan[d]) \in Actionable

Thm_C40_SelectedAreActionable == [][C40_step]_vars

Wit_C40_ConfirmedAfterToggles ==
  /\ pc = "pass1"
  /\ ~selectedPaths.all
  /\ selectedPaths.paths # {}
  /\ labelsOff # {}
====
